---- MODULE Spec2Model ----
(***************************************************************************)
(* rest-filters: the per-request pipeline of FilterSet.filter_queryset     *)
(* (src/src/rest_filters/filtersets.py), the Filter tree it resolves       *)
(* (src/src/rest_filters/filters.py), the constraints it checks            *)
(* (src/src/rest_filters/constraints.py) and merge_errors                  *)
(* (src/src/rest_filters/utils.py).                                        *)
(*                                                                         *)
(* Objects live in heaps keyed by <<owner, name>>: the owner "class" holds *)
(* the class-level declaration, "global" the field objects a get_serializer*)
(* hook hands back, and an instance id the request-scoped deep copies.     *)
(***************************************************************************)
EXTENDS Integers, Sequences, FiniteSets, TLC

VARIABLES
    cls,          \* the FilterSet subclass under test (a name of Classes)
    serializers,  \* heap of serializer field objects: <<owner, field>> -> [default, context]
    filters,      \* heap of Filter objects: <<owner, node>> -> [aliases, filterset]
    constraints,  \* heap of Constraint objects: <<owner, index>> -> [filterset]
    inst,         \* FilterSet instances: id -> the instance's attributes and the position of its call
    cin,          \* input of one Constraint.check call: [constraint, values]
    cout          \* what that call did: None before it, else "passed" or the raised detail

vars == <<cls, serializers, filters, constraints, inst, cin, cout>>

(***************************************************************************)
(* Sentinels and values                                                    *)
(***************************************************************************)
\* Python's None.
None == [t |-> "None"]
\* rest_framework.fields.empty: "no data was passed".
empty == [t |-> "empty"]
\* A parsed value.
IntValue(n) == [t |-> "int", v |-> n]
ListValue(s) == [t |-> "list", v |-> s]

\* One ErrorDetail: a message with the names it interpolates.
Msg(text, args) == [msg |-> text, args |-> args]
\* The detail of a ValidationError: a list of messages, a mapping, or one bare message.
ListDetail(items) == [t |-> "list", v |-> items]
DictDetail(map) == [t |-> "dict", v |-> map]
StrDetail(m) == [t |-> "str", v |-> m]

NON_FIELD_ERRORS_KEY == "non_field_errors"

\* Group names are character sequences: filter_queryset splits them at "."
\* and _resolve_group_namespace compares prefixes.
chain == <<"c", "h", "a", "i", "n">>
names == <<"n", "a", "m", "e", "s">>
other == <<"o", "t", "h", "e", "r">>
custom == <<"c", "u", "s", "t", "o", "m">>
g_a == <<"g", ".", "a">>
g_b == <<"g", ".", "b">>

(***************************************************************************)
(* Raw query strings and the serializer fields that parse them             *)
(***************************************************************************)
\* A raw value holding a null character.
NulRaw == "7<NUL>"
RawValues == {"7", "x", "", " ", NulRaw}

\* str.strip(), on the raw values of the model.
strip(raw) == IF raw = " " THEN "" ELSE raw

\* int(data) of IntegerField.to_internal_value: the digits that parse.
IsInt(data) == data \in {"7"}
IntOf(data) == CASE data = "7" -> 7 [] OTHER -> 0

\* serializers.CharField(allow_blank=True).run_validation(value): blank and
\* whitespace-only input is "", null characters are rejected, the rest is trimmed.
CharField_run_validation(raw) ==
    IF strip(raw) = "" THEN [status |-> "ok", value |-> ""]
    ELSE IF raw = NulRaw
         THEN [status |-> "error",
               detail |-> ListDetail(<<Msg("Null characters are not allowed.", <<>>)>>)]
         ELSE [status |-> "ok", value |-> strip(raw)]

\* Field.run_validation of the value field `f` = [kind, required, default] on
\* `data` (a trimmed string or empty): validate_empty_value, then
\* to_internal_value. kind "int" is an IntegerField, kind "csv" a
\* CSVField(child=IntegerField()) whose child errors form a mapping.
Field_run_validation(f, data) ==
    IF data = empty
    THEN IF f.required
         THEN [status |-> "error",
               detail |-> ListDetail(<<Msg("This field is required.", <<>>)>>)]
         ELSE IF f.default = empty
              THEN [status |-> "skip"]
              ELSE [status |-> "ok", value |-> f.default]
    ELSE IF f.kind = "csv"
         THEN IF data.v = ""
              THEN [status |-> "ok", value |-> ListValue(<<>>)]
              ELSE IF IsInt(data.v)
                   THEN [status |-> "ok", value |-> ListValue(<<IntOf(data.v)>>)]
                   ELSE [status |-> "error",
                         detail |-> DictDetail([k \in {"0"} |->
                             ListDetail(<<Msg("A valid integer is required.", <<>>)>>)])]
         ELSE IF IsInt(data.v)
              THEN [status |-> "ok", value |-> IntValue(IntOf(data.v))]
              ELSE [status |-> "error",
                    detail |-> ListDetail(<<Msg("A valid integer is required.", <<>>)>>)]

\* A string handed to a field, told apart from the empty sentinel.
Str(s) == [t |-> "str", v |-> s]

(***************************************************************************)
(* The declared FilterSet classes                                          *)
(***************************************************************************)
\* Filter.__init__ with every argument at its default.
Filter ==
    [name |-> "", param |-> "", lookup |-> "", parent |-> "", children |-> <<>>,
     namespace |-> FALSE, serializer |-> "", group |-> <<>>, noop |-> FALSE,
     method |-> "", blank |-> "", field |-> None, negate |-> FALSE,
     template |-> None, aliases |-> None]

\* class UserFilterSet(FilterSet):
\*     created = Filter(IntegerField(required=False),
\*                      children=[Filter(param="gte", lookup="gte")])
\*     ns = Filter(namespace=True,
\*                 children=[Filter(CSVField(child=IntegerField(), required=False), param="y")])
\*     username = Filter(IntegerField())
UserNodes ==
    [n \in {"created", "created/gte", "ns", "ns/y", "username"} |->
        CASE n = "created" ->
                [Filter EXCEPT !.name = "created", !.serializer = "created",
                               !.children = <<"created/gte">>]
          [] n = "created/gte" ->
                [Filter EXCEPT !.param = "gte", !.lookup = "gte", !.parent = "created"]
          [] n = "ns" ->
                [Filter EXCEPT !.name = "ns", !.namespace = TRUE, !.children = <<"ns/y">>]
          [] n = "ns/y" ->
                [Filter EXCEPT !.param = "y", !.parent = "ns", !.serializer = "y"]
          [] n = "username" ->
                [Filter EXCEPT !.name = "username", !.serializer = "username"]]

\* class QuietFilterSet(FilterSet):
\*     created = Filter(IntegerField(required=False), group="names",
\*                      children=[Filter(param="gte", lookup="gte", negate=True)])
\*     score = Filter(IntegerField(default=1), field="points")
\*     ordering = Filter(IntegerField(required=False), noop=True, blank="keep")
QuietNodes ==
    [n \in {"created", "created/gte", "score", "ordering"} |->
        CASE n = "created" ->
                [Filter EXCEPT !.name = "created", !.serializer = "created",
                               !.group = names, !.children = <<"created/gte">>]
          [] n = "created/gte" ->
                [Filter EXCEPT !.param = "gte", !.lookup = "gte", !.parent = "created",
                               !.negate = TRUE]
          [] n = "score" ->
                [Filter EXCEPT !.name = "score", !.serializer = "score",
                               !.field = Str("points")]
          [] n = "ordering" ->
                [Filter EXCEPT !.name = "ordering", !.serializer = "ordering",
                               !.noop = TRUE, !.blank = "keep"]]

\* class BrokenFilterSet(FilterSet):
\*     username = Filter(IntegerField())
\*     role = Filter(children=[Filter(param="x", lookup="x")])
BrokenNodes ==
    [n \in {"username", "role", "role/x"} |->
        CASE n = "username" ->
                [Filter EXCEPT !.name = "username", !.serializer = "username"]
          [] n = "role" ->
                [Filter EXCEPT !.name = "role", !.children = <<"role/x">>]
          [] n = "role/x" ->
                [Filter EXCEPT !.param = "x", !.lookup = "x", !.parent = "role"]]

\* class DynamicFilterSet(FilterSet):
\*     role = Filter()
\*     username = Filter(IntegerField(), method="get_username")
\*     def get_serializer(self, param, serializer):
\*         return {"role": dynamic, "username": replacement}[param]
\*     def get_default(self, param, default):
\*         return 5 if param == "username" else default
DynamicNodes ==
    [n \in {"role", "username"} |->
        CASE n = "role" ->
                [Filter EXCEPT !.name = "role"]
          [] n = "username" ->
                [Filter EXCEPT !.name = "username", !.serializer = "username",
                               !.method = "get_username"]]

\* class GroupFilterSet(FilterSet):
\*     editor = Filter(IntegerField(required=False), method="get_editor", group="names")
\*     title = Filter(IntegerField(required=False), field=Lower("title"))
\*     owner = Filter(IntegerField(required=False), method="get_owner")
\*     flag = Filter(IntegerField(required=False), method="get_flag", blank="omit")
\*     def get_editor(self, param, value):
\*         return Entry(group="g.a", aliases={"n": Count("books")}, value=value,
\*                      expression=Q(editor=value))
\*     def get_owner(self, param, value):
\*         return Entry(group="g.b", value=value, expression=Q(owner=value))
\*     def get_flag(self, param, value):
\*         return None
GroupNodes ==
    [n \in {"editor", "title", "owner", "flag"} |->
        CASE n = "editor" ->
                [Filter EXCEPT !.name = "editor", !.serializer = "editor",
                               !.method = "get_editor", !.group = names]
          [] n = "title" ->
                [Filter EXCEPT !.name = "title", !.serializer = "title",
                               !.field = [t |-> "expr", v |-> "Lower(title)"]]
          [] n = "owner" ->
                [Filter EXCEPT !.name = "owner", !.serializer = "owner",
                               !.method = "get_owner"]
          [] n = "flag" ->
                [Filter EXCEPT !.name = "flag", !.serializer = "flag",
                               !.method = "get_flag", !.blank = "omit"]]

\* class CustomFilterSet(FilterSet):
\*     username = Filter(IntegerField(required=False))
\*     role = Filter(IntegerField(required=False), group="names")
\*     sort = Filter(IntegerField(required=False), noop=True, group="other",
\*                   aliases={"n": Count("books")})
CustomNodes ==
    [n \in {"username", "role", "sort"} |->
        CASE n = "username" ->
                [Filter EXCEPT !.name = "username", !.serializer = "username"]
          [] n = "role" ->
                [Filter EXCEPT !.name = "role", !.serializer = "role", !.group = names]
          [] n = "sort" ->
                [Filter EXCEPT !.name = "sort", !.serializer = "sort", !.noop = TRUE,
                               !.group = other,
                               !.aliases = [t |-> "dict",
                                            v |-> ("n" :> [t |-> "expr",
                                                           v |-> "Count(books)"])]]]

\* class SomeFilterSet(FilterSet):
\*     username = Filter(IntegerField())
\*     created = Filter(IntegerField(),
\*                      children=[Filter(param="date", lookup="date",
\*                                       children=[Filter(param="gte", lookup="gte")]),
\*                                Filter(param="year", lookup="year")])
\*     ns = Filter(namespace=True, children=[Filter(IntegerField(), param="y")])
\* It is only compiled, under each Meta.fields, and never instantiated.
SomeNodes ==
    [n \in {"username", "created", "created/date", "created/date/gte",
            "created/year", "ns", "ns/y"} |->
        CASE n = "username" ->
                [Filter EXCEPT !.name = "username", !.serializer = "username"]
          [] n = "created" ->
                [Filter EXCEPT !.name = "created", !.serializer = "created",
                               !.children = <<"created/date", "created/year">>]
          [] n = "created/date" ->
                [Filter EXCEPT !.param = "date", !.lookup = "date", !.parent = "created",
                               !.children = <<"created/date/gte">>]
          [] n = "created/date/gte" ->
                [Filter EXCEPT !.param = "gte", !.lookup = "gte", !.parent = "created/date"]
          [] n = "created/year" ->
                [Filter EXCEPT !.param = "year", !.lookup = "year", !.parent = "created"]
          [] n = "ns" ->
                [Filter EXCEPT !.name = "ns", !.namespace = TRUE, !.children = <<"ns/y">>]
          [] n = "ns/y" ->
                [Filter EXCEPT !.param = "y", !.parent = "ns", !.serializer = "y"]]

\* class TreeFilterSet(FilterSet):
\*     email = Filter(IntegerField(required=False), param="mail")
\*     modified = Filter(IntegerField(required=False), param="updated",
\*                       children=[Filter(lookup="gte")])
\*     first_name = Filter(
\*         IntegerField(required=False),
\*         children=[Filter(param="ln", field="last_name",
\*                          children=[Filter(param="x", lookup="x")]),
\*                   Filter(param="len", field=Length("last_name"), lookup="gt",
\*                          negate=True, aliases={"n": Count("books")})])
\*     box = Filter(namespace=True,
\*                  children=[Filter(IntegerField(required=False), param="y",
\*                                   children=[Filter(lookup="lt")])])
\*     def get_default(self, param, default):
\*         return 5 if param == "first_name" else default
\* Its nodes and trees are exercised one call at a time.
TreeNodes ==
    [n \in {"email", "modified", "modified/gte", "first_name", "first_name/ln",
            "first_name/ln/x", "first_name/len", "box", "box/y", "box/y/lt"} |->
        CASE n = "email" ->
                [Filter EXCEPT !.name = "email", !.param = "mail", !.serializer = "email"]
          [] n = "modified" ->
                [Filter EXCEPT !.name = "modified", !.param = "updated",
                               !.serializer = "modified", !.children = <<"modified/gte">>]
          [] n = "modified/gte" ->
                [Filter EXCEPT !.lookup = "gte", !.parent = "modified"]
          [] n = "first_name" ->
                [Filter EXCEPT !.name = "first_name", !.serializer = "first_name",
                               !.children = <<"first_name/ln", "first_name/len">>]
          [] n = "first_name/ln" ->
                [Filter EXCEPT !.param = "ln", !.field = Str("last_name"),
                               !.parent = "first_name",
                               !.children = <<"first_name/ln/x">>]
          [] n = "first_name/ln/x" ->
                [Filter EXCEPT !.param = "x", !.lookup = "x", !.parent = "first_name/ln"]
          [] n = "first_name/len" ->
                [Filter EXCEPT !.param = "len", !.lookup = "gt", !.negate = TRUE,
                               !.field = [t |-> "expr", v |-> "Length(last_name)"],
                               !.aliases = [t |-> "dict",
                                            v |-> ("n" :> [t |-> "expr",
                                                           v |-> "Count(books)"])],
                               !.parent = "first_name"]
          [] n = "box" ->
                [Filter EXCEPT !.name = "box", !.namespace = TRUE,
                               !.children = <<"box/y">>]
          [] n = "box/y" ->
                [Filter EXCEPT !.param = "y", !.serializer = "y", !.parent = "box",
                               !.children = <<"box/y/lt">>]
          [] n = "box/y/lt" ->
                [Filter EXCEPT !.lookup = "lt", !.parent = "box/y"]]

Classes ==
    {"UserFilterSet", "QuietFilterSet", "BrokenFilterSet", "DynamicFilterSet",
     "GroupFilterSet", "CustomFilterSet"}

\* The Filter objects of class c, by node.
Declared(c) ==
    CASE c = "UserFilterSet" -> UserNodes
      [] c = "QuietFilterSet" -> QuietNodes
      [] c = "BrokenFilterSet" -> BrokenNodes
      [] c = "DynamicFilterSet" -> DynamicNodes
      [] c = "GroupFilterSet" -> GroupNodes
      [] c = "CustomFilterSet" -> CustomNodes
      [] c = "SomeFilterSet" -> SomeNodes
      [] c = "TreeFilterSet" -> TreeNodes

\* FilterSet._compile_fields with Meta.fields not set: the class's Filter
\* attributes in declaration order.
compiled_fields(c) ==
    CASE c = "UserFilterSet" -> <<"created", "ns", "username">>
      [] c = "QuietFilterSet" -> <<"created", "score", "ordering">>
      [] c = "BrokenFilterSet" -> <<"username", "role">>
      [] c = "DynamicFilterSet" -> <<"role", "username">>
      [] c = "GroupFilterSet" -> <<"editor", "title", "owner", "flag">>
      [] c = "CustomFilterSet" -> <<"username", "role", "sort">>
      [] c = "SomeFilterSet" -> <<"username", "created", "ns">>
      [] c = "TreeFilterSet" -> <<"email", "modified", "first_name", "box">>

\* The serializer field objects a class declares (owner "class") and the
\* module-level ones its get_serializer hook returns (owner "global"), by
\* their constructor arguments.
IntegerField(required, default) == [kind |-> "int", required |-> required, default |-> default]
CSVField(required, default) == [kind |-> "csv", required |-> required, default |-> default]

SerializerDecl(c) ==
    CASE c = "UserFilterSet" ->
            [f \in {"created", "y", "username"} |->
                CASE f = "created" -> IntegerField(FALSE, empty)
                  [] f = "y" -> CSVField(FALSE, empty)
                  [] f = "username" -> IntegerField(TRUE, empty)]
      [] c = "QuietFilterSet" ->
            [f \in {"created", "score", "ordering"} |->
                CASE f = "created" -> IntegerField(FALSE, empty)
                  [] f = "score" -> IntegerField(FALSE, IntValue(1))
                  [] f = "ordering" -> IntegerField(FALSE, empty)]
      [] c = "BrokenFilterSet" ->
            [f \in {"username"} |-> IntegerField(TRUE, empty)]
      [] c = "DynamicFilterSet" ->
            [f \in {"username", "dynamic", "replacement"} |->
                CASE f = "username" -> IntegerField(TRUE, empty)
                  [] f = "dynamic" -> CSVField(FALSE, empty)
                  [] f = "replacement" -> IntegerField(FALSE, empty)]
      [] c = "GroupFilterSet" ->
            [f \in {"editor", "title", "owner", "flag"} |-> IntegerField(FALSE, empty)]
      [] c = "CustomFilterSet" ->
            [f \in {"username", "role", "sort"} |-> IntegerField(FALSE, empty)]
      [] c = "TreeFilterSet" ->
            [f \in {"email", "modified", "first_name", "y"} |->
                IntegerField(FALSE, empty)]

GlobalSerializers(c) ==
    IF c = "DynamicFilterSet" THEN {"dynamic", "replacement"} ELSE {}

(***************************************************************************)
(* Options (Meta) and the overridable hooks of each class                  *)
(***************************************************************************)
MutuallyExclusive(message, fields) ==
    [type |-> "MutuallyExclusive", message |-> message, fields |-> fields,
     depends_on |-> <<>>]
MutuallyInclusive(message, fields) ==
    [type |-> "MutuallyInclusive", message |-> message, fields |-> fields,
     depends_on |-> <<>>]
Dependency(message, fields, depends_on) ==
    [type |-> "Dependency", message |-> message, fields |-> fields,
     depends_on |-> depends_on]

\* A Constraint subclass of the application, as MyConstraint of
\* tests/test_constraints.py: check raises ValidationError(detail) when
\* `field` is a key of values.
MyConstraint(detail, field) ==
    [type |-> "MyConstraint", message |-> "", fields |-> <<field>>,
     depends_on |-> <<>>, detail |-> detail]

\* conf.get_default_known_parameters with rest_framework's default settings.
get_default_known_parameters ==
    <<"page", "page_size", "cursor", "ordering", "version", "format">>

\* AppSettings: BLANK, HANDLE_UNKNOWN_PARAMETERS, DEFAULT_GROUP.
app_settings ==
    [BLANK |-> "omit", HANDLE_UNKNOWN_PARAMETERS |-> TRUE,
     KNOWN_PARAMETERS |-> get_default_known_parameters,
     DEFAULT_GROUP |-> chain]

\* Options, as the properties of the class's Meta resolve.
\* UserFilterSet.Meta:    known_parameters = ["page"]
\*                        constraints = [MutuallyExclusive(fields=["created", "created.gte"]),
\*                                       Dependency(fields=["ns.y"], depends_on=["username", "created"])]
\* QuietFilterSet.Meta:   handle_unknown_parameters = False
\*                        constraints = [Dependency(fields=["created.gte", "score"], depends_on=["created"]),
\*                                       MutuallyExclusive(message="pick one", fields=["created", "ordering"])]
\* DynamicFilterSet.Meta: constraints = [MutuallyExclusive(fields=["role", "username"])]
\* GroupFilterSet.Meta:   blank = "keep"
\*                        combinators = {"g.b": operator.or_, "@g": operator.or_}
\* CustomFilterSet.Meta:  default_group = "custom"
options(c) ==
    CASE c = "UserFilterSet" ->
            [known_parameters |-> <<"page">>,
             handle_unknown_parameters |-> app_settings.HANDLE_UNKNOWN_PARAMETERS,
             blank |-> app_settings.BLANK,
             default_group |-> app_settings.DEFAULT_GROUP,
             constraints |-> <<MutuallyExclusive("", <<"created", "created.gte">>),
                               Dependency("", <<"ns.y">>, <<"username", "created">>)>>]
      [] c = "QuietFilterSet" ->
            [known_parameters |-> app_settings.KNOWN_PARAMETERS,
             handle_unknown_parameters |-> FALSE,
             blank |-> app_settings.BLANK,
             default_group |-> app_settings.DEFAULT_GROUP,
             constraints |-> <<Dependency("", <<"created.gte", "score">>, <<"created">>),
                               MutuallyExclusive("pick one", <<"created", "ordering">>)>>]
      [] c = "BrokenFilterSet" ->
            [known_parameters |-> app_settings.KNOWN_PARAMETERS,
             handle_unknown_parameters |-> app_settings.HANDLE_UNKNOWN_PARAMETERS,
             blank |-> app_settings.BLANK,
             default_group |-> app_settings.DEFAULT_GROUP,
             constraints |-> <<>>]
      [] c = "DynamicFilterSet" ->
            [known_parameters |-> app_settings.KNOWN_PARAMETERS,
             handle_unknown_parameters |-> app_settings.HANDLE_UNKNOWN_PARAMETERS,
             blank |-> app_settings.BLANK,
             default_group |-> app_settings.DEFAULT_GROUP,
             constraints |-> <<MutuallyExclusive("", <<"role", "username">>)>>]
      [] c = "GroupFilterSet" ->
            [known_parameters |-> app_settings.KNOWN_PARAMETERS,
             handle_unknown_parameters |-> app_settings.HANDLE_UNKNOWN_PARAMETERS,
             blank |-> "keep",
             default_group |-> app_settings.DEFAULT_GROUP,
             constraints |-> <<>>]
      [] c = "CustomFilterSet" ->
            [known_parameters |-> app_settings.KNOWN_PARAMETERS,
             handle_unknown_parameters |-> app_settings.HANDLE_UNKNOWN_PARAMETERS,
             blank |-> app_settings.BLANK,
             default_group |-> custom,
             constraints |-> <<>>]
      [] c = "TreeFilterSet" ->
            [known_parameters |-> app_settings.KNOWN_PARAMETERS,
             handle_unknown_parameters |-> app_settings.HANDLE_UNKNOWN_PARAMETERS,
             blank |-> app_settings.BLANK,
             default_group |-> app_settings.DEFAULT_GROUP,
             constraints |-> <<>>]

\* A reference to the object `name` of `owner`.
Ref(owner, name) == [t |-> "ref", owner |-> owner, name |-> name]

\* FilterSet.get_serializer(param, serializer): the default returns the
\* serializer it was given (a reference, or None);
\* DynamicFilterSet supplies "role" and replaces "username".
FilterSet_get_serializer(c, param, serializer) ==
    IF c = "DynamicFilterSet" /\ param = "role" THEN Ref("global", "dynamic")
    ELSE IF c = "DynamicFilterSet" /\ param = "username" THEN Ref("global", "replacement")
    ELSE serializer

\* FilterSet.get_default(param, default): the default returns `default`.
FilterSet_get_default(c, param, default) ==
    IF c = "DynamicFilterSet" /\ param = "username" THEN IntValue(5)
    ELSE IF c = "TreeFilterSet" /\ param = "first_name" THEN IntValue(5)
    ELSE default

\* FilterSet.get_serializer_context(param): the view's context plus
\* context["filterset"] = self.
get_serializer_context(self, param) == self

(***************************************************************************)
(* Entry and query expressions                                             *)
(***************************************************************************)
Entry(group, aliases, value, expression) ==
    [t |-> "Entry", group |-> group, aliases |-> aliases, value |-> value,
     expression |-> expression]

\* django.db.models.Q: a connector, a negation flag and children, each a
\* nested Q, a bare field path Q("username") or a pair Q(username=value).
Q(connector, negated, children) ==
    [t |-> "Q", connector |-> connector, negated |-> negated, children |-> children]
Path(field) == [t |-> "path", field |-> field]
Pair(field, value) == [t |-> "pair", field |-> field, value |-> value]
\* operator.and_ / operator.or_ on two expressions, kept opaque.
Combined(op, lhs, rhs) == [t |-> "combined", op |-> op, lhs |-> lhs, rhs |-> rhs]
\* ~q
Invert(q) == [q EXCEPT !.negated = ~q.negated]

ValueError(msg, param) == [t |-> "ValueError", msg |-> msg, param |-> param]

\* A faulty fill_q_template: the Q is rebuilt without _negated.
RECURSIVE fill_q_template_unnegated(_, _)
fill_q_template_unnegated(template, value) ==
    LET conditions ==
            [k \in 1..Len(template.children) |->
                LET child == template.children[k]
                IN  IF child.t = "Q" THEN fill_q_template_unnegated(child, value)
                    ELSE IF child.t = "pair"
                         THEN ValueError("Q objects should not specify values in templates",
                                         child.field)
                         ELSE Pair(child.field, value)]
        raised == {k \in 1..Len(template.children) : conditions[k].t = "ValueError"}
    IN  IF raised # {}
        THEN conditions[CHOOSE k \in raised : \A j \in raised : k <= j]
        ELSE Q(template.connector, FALSE, conditions)

\* utils.fill_q_template: the template with the value at every leaf, or the
\* ValueError of the first leaf that already holds a value.
RECURSIVE fill_q_template(_, _)
fill_q_template(template, value) ==
    LET conditions ==
            [k \in 1..Len(template.children) |->
                LET child == template.children[k]
                IN  IF child.t = "Q" THEN fill_q_template(child, value)
                    ELSE IF child.t = "pair"
                         THEN ValueError("Q objects should not specify values in templates",
                                         child.field)
                         ELSE Pair(child.field, value)]
        raised == {k \in 1..Len(template.children) : conditions[k].t = "ValueError"}
    IN  IF raised # {}
        THEN conditions[CHOOSE k \in raised : \A j \in raised : k <= j]
        ELSE Q(template.connector, template.negated, conditions)

(***************************************************************************)
(* Filter                                                                  *)
(***************************************************************************)
\* A faulty copy: no copy is made, the object stays the one `owner` holds.
same_object(owner, to) == owner

\* copy.deepcopy(x): the copy is a new object, held by `to`; `owner` holds x.
deepcopy(owner, to) == to

\* Filter.bind(parent), called on each child by the parent's __init__:
\* the _param the child has from then on.
bind(self) == IF self.param # "" THEN self.param ELSE self.lookup

\* A faulty get_param_name: the bare name, whatever the parent.
get_param_name_own(c, n) ==
    IF Declared(c)[n].parent # "" THEN bind(Declared(c)[n])
    ELSE IF Declared(c)[n].param # "" THEN Declared(c)[n].param
    ELSE Declared(c)[n].name

RECURSIVE get_param_name(_, _)
get_param_name(c, n) ==
    LET self == Declared(c)[n]
        _param == IF self.parent # "" THEN bind(self) ELSE self.param
        name == IF _param # "" THEN _param ELSE self.name
    IN  IF self.parent # ""
        THEN get_param_name(c, self.parent) \o "." \o name
        ELSE name

RECURSIVE get_group(_, _)
get_group(c, n) ==
    LET self == Declared(c)[n]
    IN  IF self.group # <<>> THEN self.group
        ELSE IF self.parent # "" THEN get_group(c, self.parent)
        ELSE chain

\* A faulty get_db_field: a node without a field does not ask its parent.
get_db_field_own(c, n) ==
    IF Declared(c)[n].field # None THEN Declared(c)[n].field
    ELSE Str(get_param_name(c, n))

RECURSIVE get_db_field(_, _)
get_db_field(c, n) ==
    LET self == Declared(c)[n]
    IN  IF self.parent # "" /\ self.field = None
        THEN get_db_field(c, self.parent)
        ELSE IF self.field # None THEN self.field ELSE Str(self.name)

\* Filter.get_serializer: the name of the node's own field object, else its
\* parent's; "" stands for the ValueError raised when the chain has none.
RECURSIVE get_serializer(_, _)
get_serializer(c, n) ==
    LET self == Declared(c)[n]
    IN  IF self.serializer # "" THEN self.serializer
        ELSE IF self.parent # "" THEN get_serializer(c, self.parent)
        ELSE ""

\* Filter.get_filterset: the _filterset of the root of n's tree, among the
\* Filter objects of `o`; "" is None.
RECURSIVE get_filterset(_, _, _, _)
get_filterset(c, o, n, H) ==
    LET self == Declared(c)[n]
    IN  IF self.parent # "" THEN get_filterset(c, o, self.parent, H)
        ELSE H.filters[<<o, n>>].filterset

\* A faulty property: the node's own setting is ignored.
blank_of_filterset(c, n) == options(c).blank

\* Filter.blank
blank(c, n) ==
    IF Declared(c)[n].blank = "" THEN options(c).blank ELSE Declared(c)[n].blank

\* The state of the serializer object behind a reference: a fresh copy has
\* the state its constructor gives it (Field.__deepcopy__ re-instantiates).
NewSerializer(c, name) == [default |-> SerializerDecl(c)[name].default, context |-> ""]
SerializerState(c, ref, H) ==
    IF ref.owner = "local" THEN NewSerializer(c, ref.name)
    ELSE H.serializers[<<ref.owner, ref.name>>]

\* Filter.resolve_serializer: the field object to validate with, its default
\* and context set; the object is one of the heap (then the heap changes) or
\* a copy local to the call.
set_serializer(c, param, filterset, serializer, H) ==
    LET state == [default |-> FilterSet_get_default(c, param,
                                  SerializerState(c, serializer, H).default),
                  context |-> get_serializer_context(filterset, param)]
    IN  [status |-> "ok",
         serializer |-> [kind |-> SerializerDecl(c)[serializer.name].kind,
                         required |-> SerializerDecl(c)[serializer.name].required,
                         default |-> state.default],
         H |-> IF serializer.owner = "local" THEN H
               ELSE [H EXCEPT !.serializers[<<serializer.owner, serializer.name>>] = state]]
copy_serializer(c, param, filterset, current, given, H) ==
    IF filterset = ""
    THEN [status |-> "AssertionError", H |-> H,
          exc |-> [t |-> "AssertionError", msg |-> "Could not resolve FilterSet",
                   param |-> param]]
    ELSE IF given = None
    THEN [status |-> "ValueError", H |-> H,
          exc |-> ValueError("Serializer could not be resolved for", param)]
    ELSE set_serializer(c, param, filterset,
                        IF given = current THEN current
                        ELSE Ref(deepcopy(given.owner, "local"), given.name), H)
given_serializer(c, param, filterset, current, H) ==
    copy_serializer(c, param, filterset, current,
                    FilterSet_get_serializer(c, param, current), H)
static_serializer(c, o, param, filterset, static, H) ==
    given_serializer(c, param, filterset,
                     IF static = "" THEN None ELSE Ref(o, static), H)
resolve_serializer(c, o, n, H) ==
    static_serializer(c, o, get_param_name(c, n), get_filterset(c, o, n, H),
                      get_serializer(c, n), H)

\* Filter.run_validation -> FilterSet.run_validation -> serializer.run_validation
run_validation(value, serializer) == Field_run_validation(serializer, value)

\* Filter.parse_value on the raw query value (a Str, or empty when the key
\* is not in the query): the trim of a supplied value comes first, the
\* serializer is resolved after it.
validated(parsed, H) ==
    CASE parsed.status = "ok" -> [status |-> "ok", value |-> parsed.value, H |-> H]
      [] parsed.status = "skip" -> [status |-> "SkipField", H |-> H]
      [] parsed.status = "error" ->
            [status |-> "ValidationError", detail |-> parsed.detail, H |-> H]
parse_with(data, resolved) ==
    IF resolved.status # "ok" THEN resolved
    ELSE validated(run_validation(data, resolved.serializer), resolved.H)
\* A faulty order: the serializer is resolved before the raw value is trimmed.
parse_resolved_first(c, o, n, value, trimmed, H) ==
    IF resolve_serializer(c, o, n, H).status # "ok" THEN resolve_serializer(c, o, n, H)
    ELSE IF value # empty /\ trimmed.status = "error"
    THEN [status |-> "ValidationError", detail |-> trimmed.detail, H |-> H]
    ELSE parse_with(IF value = empty THEN empty
                    ELSE IF trimmed.value = "" /\ blank(c, n) = "omit" THEN empty
                    ELSE Str(trimmed.value),
                    resolve_serializer(c, o, n, H))
parse_trimmed(c, o, n, value, trimmed, H) ==
    IF value # empty /\ trimmed.status = "error"
    THEN [status |-> "ValidationError", detail |-> trimmed.detail, H |-> H]
    ELSE parse_with(IF value = empty THEN empty
                    ELSE IF trimmed.value = "" /\ blank(c, n) = "omit" THEN empty
                    ELSE Str(trimmed.value),
                    resolve_serializer(c, o, n, H))
parse_value(c, o, n, value, H) ==
    parse_trimmed(c, o, n, value, CharField_run_validation(value.v), H)

\* A faulty resolve_entry_attrs: the generated alias replaces the node's
\* aliases and the condition is built against the expression's text.
resolve_entry_attrs_replacing(c, o, n, value, H) ==
    LET self == Declared(c)[n]
        template == IF self.negate THEN Invert(self.template) ELSE self.template
        filled == fill_q_template(template, value)
        db_field == get_db_field(c, n)
        alias == "_default_alias_" \o get_param_name(c, n)
        aliases == IF db_field.t # "expr" THEN H.filters[<<o, n>>].aliases
                   ELSE [t |-> "dict", v |-> (alias :> db_field)]
        path == IF self.lookup # "" THEN db_field.v \o "__" \o self.lookup
                ELSE db_field.v
        expression == IF self.template # None THEN filled
                      ELSE Q("AND", self.negate, <<Pair(path, value)>>)
        H2 == IF self.template # None THEN H
              ELSE [H EXCEPT !.filters[<<o, n>>].aliases = aliases]
    IN  IF self.template # None /\ filled.t = "ValueError"
        THEN [status |-> "ValueError", exc |-> filled, H |-> H]
        ELSE [status |-> "ok", H |-> H2,
              entry |-> Entry(get_group(c, n), H2.filters[<<o, n>>].aliases,
                              value, expression)]

\* Filter.resolve_entry_attrs: the Entry of a parsed value, and the heap
\* after the node's aliases took the generated alias of an expression field.
resolve_entry_attrs(c, o, n, value, H) ==
    LET self == Declared(c)[n]
        template == IF self.negate THEN Invert(self.template) ELSE self.template
        filled == fill_q_template(template, value)
        db_field == get_db_field(c, n)
        alias == "_default_alias_" \o get_param_name(c, n)
        own == H.filters[<<o, n>>].aliases
        aliases == IF db_field.t # "expr" THEN own
                   ELSE IF own # None
                        THEN [t |-> "dict", v |-> (alias :> db_field) @@ own.v]
                        ELSE [t |-> "dict", v |-> (alias :> db_field)]
        lhs == IF db_field.t = "expr" THEN alias ELSE db_field.v
        path == IF self.lookup # "" THEN lhs \o "__" \o self.lookup ELSE lhs
        expression == IF self.template # None THEN filled
                      ELSE Q("AND", self.negate, <<Pair(path, value)>>)
        H2 == IF self.template # None THEN H
              ELSE [H EXCEPT !.filters[<<o, n>>].aliases = aliases]
    IN  IF self.template # None /\ filled.t = "ValueError"
        THEN [status |-> "ValueError", exc |-> filled, H |-> H]
        ELSE [status |-> "ok", H |-> H2,
              entry |-> Entry(get_group(c, n), H2.filters[<<o, n>>].aliases,
                              value, expression)]

\* The custom methods of the classes, called as method(param, value).
\* DynamicFilterSet.get_username returns Q(username=value); those of
\* GroupFilterSet return an Entry of their own, or None.
CallMethod(c, method, param, value) ==
    CASE method = "get_username" -> Q("AND", FALSE, <<Pair("username", value)>>)
      [] method = "get_editor" ->
            Entry(g_a, [t |-> "dict", v |-> ("n" :> [t |-> "expr", v |-> "Count(books)"])],
                  value, Q("AND", FALSE, <<Pair("editor", value)>>))
      [] method = "get_owner" ->
            Entry(g_b, None, value, Q("AND", FALSE, <<Pair("owner", value)>>))
      [] method = "get_flag" -> None

\* Filter.resolve_entry: status "ok" carries the Entry (None when the field
\* was skipped); any other status is the exception that left the call.
method_entry_regrouped(group, value, result) ==
    Entry(group, None, value, IF result.t = "Entry" THEN result.expression ELSE result)
method_entry(group, value, result) ==
    IF result.t = "Entry" THEN result ELSE Entry(group, None, value, result)
entry_of(c, o, n, self, param, parsed) ==
    IF parsed.status = "SkipField"
    THEN [status |-> "ok", entry |-> None, H |-> parsed.H]
    ELSE IF parsed.status # "ok" THEN parsed
    ELSE IF self.noop
         THEN [status |-> "ok", H |-> parsed.H,
               entry |-> Entry(get_group(c, n), None, parsed.value, None)]
    ELSE IF self.method # ""
         THEN [status |-> "ok",
               H |-> [parsed.H EXCEPT !.called =
                         Append(@, [method |-> self.method, param |-> param,
                                    value |-> parsed.value])],
               entry |-> method_entry(get_group(c, n), parsed.value,
                                      CallMethod(c, self.method, param, parsed.value))]
    ELSE resolve_entry_attrs(c, o, n, parsed.value, parsed.H)
get_query_value(query_dict, param) ==
    IF param \in DOMAIN query_dict THEN Str(query_dict[param]) ELSE empty
resolve_entry_param(c, o, n, query_dict, param, H) ==
    entry_of(c, o, n, Declared(c)[n], param,
             parse_value(c, o, n, get_query_value(query_dict, param), H))
resolve_entry(c, o, n, query_dict, H) ==
    resolve_entry_param(c, o, n, query_dict, get_param_name(c, n), H)

\* A faulty get_all_children: the children, without their descendants.
get_children_only(c, n) == Declared(c)[n].children

\* Filter.get_all_children: the descendants of n, depth first, each child
\* before its own children.
RECURSIVE get_all_children(_, _)
RECURSIVE ChildrenFrom(_, _, _)
ChildrenFrom(c, children, k) ==
    IF k > Len(children) THEN <<>>
    ELSE <<children[k]>> \o get_all_children(c, children[k])
         \o ChildrenFrom(c, children, k + 1)
get_all_children(c, n) == ChildrenFrom(c, Declared(c)[n].children, 1)

(***************************************************************************)
(* Insertion-ordered dicts: sequences of [key, val]                        *)
(***************************************************************************)
Keys(d) == [k \in 1..Len(d) |-> d[k].key]
Has(d, key) == \E k \in 1..Len(d) : d[k].key = key
Get(d, key) == d[CHOOSE k \in 1..Len(d) : d[k].key = key].val
Put(d, key, val) ==
    IF Has(d, key)
    THEN [k \in 1..Len(d) |-> IF d[k].key = key THEN [key |-> key, val |-> val] ELSE d[k]]
    ELSE Append(d, [key |-> key, val |-> val])
Values(d) == [k \in 1..Len(d) |-> d[k].val]
Range(s) == {s[k] : k \in 1..Len(s)}

\* Filter.resolve, from the k-th of `instances` on: the entries and errors
\* collected (with the parameters in the order they were attempted), or the
\* exception that was not a ValidationError.
RECURSIVE ResolveFrom(_, _, _, _, _, _, _, _)
\* A faulty loop: the first ValidationError leaves resolve at once.
ResolvedOrRaised(c, o, instances, k, query_dict, entries, errors, param, attempted, r) ==
    IF r.status = "ValidationError"
    THEN [status |-> "ValidationError", attempted |-> attempted, H |-> r.H,
          exc |-> [t |-> "ValidationError", detail |-> (param :> r.detail)]]
    ELSE IF r.status = "ok"
    THEN ResolveFrom(c, o, instances, k + 1, query_dict,
                     Put(entries, param, r.entry), errors,
                     [attempted |-> attempted, H |-> r.H])
    ELSE [status |-> r.status, exc |-> r.exc, attempted |-> attempted, H |-> r.H]
Resolved(c, o, instances, k, query_dict, entries, errors, param, attempted, r) ==
    IF r.status = "ValidationError"
    THEN ResolveFrom(c, o, instances, k + 1, query_dict, entries,
                     Put(errors, param, r.detail), [attempted |-> attempted, H |-> r.H])
    ELSE IF r.status = "ok"
    THEN ResolveFrom(c, o, instances, k + 1, query_dict,
                     Put(entries, param, r.entry), errors,
                     [attempted |-> attempted, H |-> r.H])
    ELSE [status |-> r.status, exc |-> r.exc, attempted |-> attempted, H |-> r.H]
ResolveParam(c, o, instances, k, query_dict, entries, errors, acc, param) ==
    Resolved(c, o, instances, k, query_dict, entries, errors, param,
             Append(acc.attempted, param),
             resolve_entry(c, o, instances[k], query_dict, acc.H))
ResolveFrom(c, o, instances, k, query_dict, entries, errors, acc) ==
    IF k > Len(instances)
    THEN [status |-> "ok", entries |-> entries, errors |-> errors,
          attempted |-> acc.attempted, H |-> acc.H]
    ELSE IF Declared(c)[instances[k]].namespace
    THEN ResolveFrom(c, o, instances, k + 1, query_dict, entries, errors, acc)
    ELSE ResolveParam(c, o, instances, k, query_dict, entries, errors, acc,
                      get_param_name(c, instances[k]))

resolve(c, o, n, query_dict, H) ==
    ResolveFrom(c, o, <<n>> \o get_all_children(c, n), 1, query_dict, <<>>, <<>>,
                [attempted |-> <<>>, H |-> H])

(***************************************************************************)
(* Constraints                                                             *)
(***************************************************************************)
\* The positions of `fields` whose name is a key of `values`, in order.
RECURSIVE Present(_, _)
Present(fields, values) ==
    IF fields = <<>> THEN <<>>
    ELSE (IF Head(fields) \in DOMAIN values THEN <<Head(fields)>> ELSE <<>>)
         \o Present(Tail(fields), values)
RECURSIVE Absent(_, _)
Absent(fields, values) ==
    IF fields = <<>> THEN <<>>
    ELSE (IF Head(fields) \notin DOMAIN values THEN <<Head(fields)>> ELSE <<>>)
         \o Absent(Tail(fields), values)

\* Constraint.get_message: the custom message, else the generic one.
Constraint_get_message(constraint) ==
    NON_FIELD_ERRORS_KEY :> ListDetail(<<
        IF constraint.message # "" THEN Msg(constraint.message, <<>>)
        ELSE Msg("Request failed to meet constraint: %(constraint)s", <<constraint.type>>)>>)

MutuallyExclusive_get_message(constraint, values) ==
    IF constraint.message # "" THEN Constraint_get_message(constraint)
    ELSE NON_FIELD_ERRORS_KEY :> ListDetail(<<
            Msg("The following fields are mutually exclusive, you may only provide one of them: %(fields)s",
                Present(constraint.fields, values))>>)

\* A faulty check: a field whose value is the empty sentinel does not count.
MutuallyExclusive_check_values(constraint, values) ==
    IF Len(SelectSeq(Present(constraint.fields, values),
                     LAMBDA field : values[field] # empty)) > 1
    THEN DictDetail(MutuallyExclusive_get_message(constraint, values))
    ELSE None

\* MutuallyExclusive.check: None, or the detail of the ValidationError raised.
MutuallyExclusive_check(constraint, values) ==
    IF Len(Present(constraint.fields, values)) > 1
    THEN DictDetail(MutuallyExclusive_get_message(constraint, values))
    ELSE None

\* A faulty message: only the fields that were provided are named.
MutuallyInclusive_get_message_present(constraint, values) ==
    IF constraint.message # "" THEN Constraint_get_message(constraint)
    ELSE NON_FIELD_ERRORS_KEY :> ListDetail(<<
            Msg("The following fields are mutually inclusive, you must provide them all at once or none of them: %(fields)s",
                Present(constraint.fields, values))>>)

MutuallyInclusive_get_message(constraint, values) ==
    IF constraint.message # "" THEN Constraint_get_message(constraint)
    ELSE NON_FIELD_ERRORS_KEY :> ListDetail(<<
            Msg("The following fields are mutually inclusive, you must provide them all at once or none of them: %(fields)s",
                constraint.fields)>>)

MutuallyInclusive_check(constraint, values) ==
    LET fields == [k \in 1..Len(constraint.fields) |->
                       constraint.fields[k] \in DOMAIN values]
    IN  IF (\E k \in DOMAIN fields : fields[k]) /\ ~(\A k \in DOMAIN fields : fields[k])
        THEN DictDetail(MutuallyInclusive_get_message(constraint, values))
        ELSE None

\* Dependency.check's `missing`: for each field of `fields` in values, the
\* dependencies not in values, appended in depends_on order.
RECURSIVE Missing(_, _, _)
Missing(fields, depends_on, values) ==
    IF fields = <<>> THEN <<>>
    ELSE LET field == Head(fields)
             rest == Missing(Tail(fields), depends_on, values)
             deps == IF field \in DOMAIN values THEN Absent(depends_on, values) ELSE <<>>
         IN  IF deps = <<>> THEN rest
             ELSE IF Has(rest, field)
                  THEN <<[key |-> field, val |-> deps \o Get(rest, field)]>>
                       \o SelectSeq(rest, LAMBDA e : e.key # field)
                  ELSE <<[key |-> field, val |-> deps]>> \o rest

\* A faulty choice of wording: the plural whatever the count.
ngettext_plural(singular, plural, n) == plural

\* ngettext(singular, plural, n)
ngettext(singular, plural, n) == IF n = 1 THEN singular ELSE plural

Dependency_get_message(constraint, values, missing) ==
    IF constraint.message # "" THEN Constraint_get_message(constraint)
    ELSE [field \in Range(Keys(missing)) |->
            ListDetail(<<Msg(
                ngettext("This query parameter also requires the following parameter to be present: %(params)s",
                         "This query parameter also requires the following parameters to be present: %(params)s",
                         Len(Get(missing, field))),
                Get(missing, field))>>)]

Dependency_check(constraint, values) ==
    LET missing == Missing(constraint.fields, constraint.depends_on, values)
    IN  IF missing # <<>>
        THEN DictDetail(Dependency_get_message(constraint, values, missing))
        ELSE None

\* serializers.ValidationError(detail).detail: a plain message becomes a
\* list of one message, a list or a mapping stays what it is.
ValidationError_detail(detail) ==
    IF detail.t = "str" THEN ListDetail(<<detail.v>>) ELSE detail

MyConstraint_check(constraint, values) ==
    IF constraint.fields[1] \in DOMAIN values
    THEN ValidationError_detail(constraint.detail)
    ELSE None

\* constraint.check(values)
check(constraint, values) ==
    CASE constraint.type = "MutuallyExclusive" -> MutuallyExclusive_check(constraint, values)
      [] constraint.type = "MutuallyInclusive" -> MutuallyInclusive_check(constraint, values)
      [] constraint.type = "Dependency" -> Dependency_check(constraint, values)
      [] constraint.type = "MyConstraint" -> MyConstraint_check(constraint, values)

(***************************************************************************)
(* Error aggregation                                                       *)
(***************************************************************************)
\* A faulty merge, source.update(errors): the later detail replaces the earlier.
update_errors(source, errors) == errors @@ source

\* utils.merge_errors(source, errors): the source after the call. The keys
\* of `errors` are distinct, so the order they are visited in does not show.
RECURSIVE merge_errors(_, _)
merge_errors(source, errors) ==
    [key \in DOMAIN source \cup DOMAIN errors |->
        IF key \notin DOMAIN errors THEN source[key]
        ELSE IF key \notin DOMAIN source THEN errors[key]
        ELSE LET src == source[key]
                 detail == errors[key]
             IN  IF src.t = "list"
                 THEN IF detail.t = "list"
                      THEN ListDetail(src.v \o detail.v)
                      ELSE ListDetail(Append(src.v, detail))
                 ELSE IF src.t = "dict" /\ detail.t = "dict"
                      THEN DictDetail(merge_errors(src.v, detail.v))
                      ELSE src]

\* A faulty loop: the first constraint that fails ends it.
RECURSIVE ConstraintsUntilFailure(_, _, _, _, _)
ConstraintsUntilFailure(list, o, self, valuedict, acc) ==
    IF acc.k > Len(list) THEN acc
    ELSE LET detail == check(list[acc.k], valuedict)
             normal == IF detail.t # "dict"
                       THEN NON_FIELD_ERRORS_KEY :> detail
                       ELSE detail.v
             next == [k |-> acc.k + 1,
                      errors |-> IF detail = None THEN acc.errors
                                 ELSE merge_errors(acc.errors, normal),
                      checked |-> Append(acc.checked, ToString(acc.k)),
                      heap |-> acc.heap]
         IN  IF detail = None
             THEN ConstraintsUntilFailure(list, o, self, valuedict, next)
             ELSE next

\* A faulty loop: no `finally`, a constraint stays bound once checked.
RECURSIVE ConstraintsKeptBound(_, _, _, _, _)
ConstraintsKeptBound(list, o, self, valuedict, acc) ==
    IF acc.k > Len(list) THEN acc
    ELSE LET bound == [acc.heap EXCEPT ![<<o, acc.k>>].filterset = self]
             detail == check(list[acc.k], valuedict)
             normal == IF detail.t # "dict"
                       THEN NON_FIELD_ERRORS_KEY :> detail
                       ELSE detail.v
         IN  ConstraintsKeptBound(list, o, self, valuedict,
                [k |-> acc.k + 1,
                 errors |-> IF detail = None THEN acc.errors
                            ELSE merge_errors(acc.errors, normal),
                 checked |-> Append(acc.checked, ToString(acc.k)),
                 heap |-> bound])

\* FilterSet.handle_constraints from the k-th constraint on: every
\* constraint is bound to the filterset, checked and unbound; `acc` holds
\* the errors so far, the indexes checked and the constraint heap.
RECURSIVE ConstraintsFrom(_, _, _, _, _)
ConstraintsFrom(list, o, self, valuedict, acc) ==
    IF acc.k > Len(list) THEN acc
    ELSE LET bound == [acc.heap EXCEPT ![<<o, acc.k>>].filterset = self]
             detail == check(list[acc.k], valuedict)
             unbound == [bound EXCEPT ![<<o, acc.k>>].filterset = ""]
             normal == IF detail.t # "dict"
                       THEN NON_FIELD_ERRORS_KEY :> detail
                       ELSE detail.v
         IN  ConstraintsFrom(list, o, self, valuedict,
                [k |-> acc.k + 1,
                 errors |-> IF detail = None THEN acc.errors
                            ELSE merge_errors(acc.errors, normal),
                 checked |-> Append(acc.checked, ToString(acc.k)),
                 heap |-> unbound])

handle_constraints(c, o, self, valuedict, heap) ==
    ConstraintsFrom(options(c).constraints, o, self, valuedict,
                    [k |-> 1, errors |-> <<>>, checked |-> <<>>, heap |-> heap])

\* FilterSet.handle_unknown_parameters: one message per unknown parameter
\* (the suggestions difflib adds to its text are left out).
handle_unknown_parameters(unknown, known) ==
    [param \in Range(unknown) |->
        ListDetail(<<Msg("This query parameter does not exist.", <<>>)>>)]

(***************************************************************************)
(* Grouping and the queryset                                               *)
(***************************************************************************)
\* str.startswith and str.split("."), on character sequences.
startswith(s, prefix) ==
    Len(prefix) <= Len(s) /\ SubSeq(s, 1, Len(prefix)) = prefix
RECURSIVE split(_)
split(s) ==
    LET dots == {k \in 1..Len(s) : s[k] = "."}
        first == CHOOSE k \in dots : \A j \in dots : k <= j
    IN  IF dots = {} THEN <<s>>
        ELSE <<SubSeq(s, 1, first - 1)>> \o split(SubSeq(s, first + 1, Len(s)))

\* Meta.combinators of each class: QuietFilterSet has {"names": operator.or_},
\* GroupFilterSet {"g.b": operator.or_, "@g": operator.or_}.
combinators(c) ==
    IF c = "QuietFilterSet" THEN (names :> "OR")
    ELSE IF c = "GroupFilterSet" THEN (g_b :> "OR") @@ ((<<"@", "g">>) :> "OR")
    ELSE <<>>

\* A faulty lookup: operator.and_ whatever Meta.combinators says.
operator_and(c, group) == "AND"

\* FilterSet.get_combinator: operator.and_ unless Meta.combinators names the group.
get_combinator(c, group) ==
    IF group \in DOMAIN combinators(c) THEN combinators(c)[group] ELSE "AND"

\* functools.reduce(combinator, expressions), for a non-empty sequence.
RECURSIVE reduce(_, _, _)
reduce(combinator, acc, expressions) ==
    IF expressions = <<>> THEN acc
    ELSE reduce(combinator, Combined(combinator, acc, Head(expressions)),
                Tail(expressions))

\* functools.reduce(operator.or_, aliases, {}): later keys win.
RECURSIVE union(_, _)
union(acc, dicts) ==
    IF dicts = <<>> THEN acc
    ELSE union(Head(dicts).v @@ acc, Tail(dicts))

\* FilterSet.get_group_entry(group, entries); entries is an ordered dict
\* of name -> Entry.
get_group_entry(c, group, entries) ==
    LET combinator == get_combinator(c, group)
        expressions == SelectSeq([k \in 1..Len(entries) |-> entries[k].val.expression],
                                 LAMBDA e : e # None)
        aliases == union(<<>>, SelectSeq([k \in 1..Len(entries) |-> entries[k].val.aliases],
                                         LAMBDA a : a # None))
    IN  Entry(group,
              IF DOMAIN aliases = {} THEN None ELSE [t |-> "dict", v |-> aliases],
              [t |-> "dict",
               v |-> [name \in Range(Keys(entries)) |-> Get(entries, name).value]],
              IF expressions # <<>>
              THEN reduce(combinator, Head(expressions), Tail(expressions))
              ELSE None)

\* A faulty add_to_queryset: an Entry without expression is applied too.
add_to_queryset_unguarded(queryset, entry) ==
    Append(IF entry.aliases # None /\ DOMAIN entry.aliases.v # {}
           THEN Append(queryset, [op |-> "alias", aliases |-> entry.aliases.v])
           ELSE queryset,
           [op |-> "filter", expression |-> entry.expression])

\* FilterSet.add_to_queryset: the queryset is the sequence of alias() and
\* filter() calls made on the base queryset.
add_to_queryset(queryset, entry) ==
    IF entry.expression = None THEN queryset
    ELSE LET aliased == IF entry.aliases # None /\ DOMAIN entry.aliases.v # {}
                        THEN Append(queryset, [op |-> "alias", aliases |-> entry.aliases.v])
                        ELSE queryset
         IN  Append(aliased, [op |-> "filter", expression |-> entry.expression])

\* FilterSet.filter_group
filter_group(c, queryset, group, entries) ==
    add_to_queryset(queryset, get_group_entry(c, group, entries))

\* The loop of _resolve_group_namespace over groups.items(): the direct
\* children and the namespaces found, in order.
RECURSIVE ScanGroups(_, _, _, _)
ScanGroups(c, root, groups, acc) ==
    IF groups = <<>> THEN acc
    ELSE LET name == Head(groups).key
             parts == split(name)
             namespace == IF Len(parts) > 1 THEN parts[1] \o <<".">> \o parts[2]
                          ELSE parts[1]
             next ==
                IF ~startswith(name, root) THEN acc
                ELSE IF namespace = root
                     THEN [acc EXCEPT !.children =
                              Put(@, name, get_group_entry(c, name, Head(groups).val))]
                     ELSE [acc EXCEPT !.ns = Append(@, namespace)]
         IN  ScanGroups(c, root, Tail(groups), next)

\* list(dict.fromkeys(ns))
RECURSIVE fromkeys(_)
fromkeys(ns) ==
    IF ns = <<>> THEN <<>>
    ELSE LET init == fromkeys(SubSeq(ns, 1, Len(ns) - 1))
             last == ns[Len(ns)]
         IN  IF last \in Range(init) THEN init ELSE Append(init, last)

\* FilterSet._resolve_group_namespace(root, groups)
RECURSIVE resolve_group_namespace(_, _, _)
RECURSIVE ResolveChildren(_, _, _, _)
ResolveChildren(c, groups, ns, children) ==
    IF ns = <<>> THEN children
    ELSE ResolveChildren(c, groups, Tail(ns),
            Put(children, Head(ns), resolve_group_namespace(c, Head(ns), groups)))
resolve_group_namespace(c, root, groups) ==
    LET scan == ScanGroups(c, root, groups, [children |-> <<>>, ns |-> <<>>])
        children == ResolveChildren(c, groups, fromkeys(scan.ns), scan.children)
    IN  IF Len(children) = 1 THEN children[1].val
        ELSE get_group_entry(c, <<"@">> \o root, children)

\* FilterSet.filter_group_namespace
filter_group_namespace(c, queryset, root, groups) ==
    add_to_queryset(queryset, resolve_group_namespace(c, root, groups))

\* A faulty loop: the "chain" entries are applied as one combined condition.
ChainCombined(queryset, entries) ==
    LET expressions == SelectSeq([k \in 1..Len(entries) |-> entries[k].val.expression],
                                 LAMBDA e : e # None)
    IN  IF expressions = <<>> THEN queryset
        ELSE Append(queryset,
                    [op |-> "filter",
                     expression |-> reduce("AND", Head(expressions), Tail(expressions))])

\* filter_queryset's loop over the "chain" entries.
RECURSIVE ChainFrom(_, _)
ChainFrom(queryset, entries) ==
    IF entries = <<>> THEN queryset
    ELSE ChainFrom(add_to_queryset(queryset, Head(entries).val), Tail(entries))

\* filter_queryset's partition of the named groups by the first segment of
\* their name: an ordered dict root -> ordered dict name -> entries.
RECURSIVE Partition(_, _)
Partition(groupdict, ns) ==
    IF groupdict = <<>> THEN ns
    ELSE LET name == Head(groupdict).key
             root == split(name)[1]
             sofar == IF Has(ns, root) THEN Get(ns, root) ELSE <<>>
         IN  Partition(Tail(groupdict),
                       Put(ns, root, Put(sofar, name, Head(groupdict).val)))

\* filter_queryset's loop over the roots.
RECURSIVE GroupsFrom(_, _, _)
GroupsFrom(c, queryset, ns) ==
    IF ns = <<>> THEN queryset
    ELSE LET groups == Head(ns).val
             next == IF Len(groups) = 1
                     THEN filter_group(c, queryset, groups[1].key, groups[1].val)
                     ELSE filter_group_namespace(c, queryset, Head(ns).key, groups)
         IN  GroupsFrom(c, next, Tail(ns))

(***************************************************************************)
(* Requests and instances                                                  *)
(***************************************************************************)
\* The most query parameters a request of the model carries.
MaxParams == 3

Instances == {"i1", "i2"}

\* The parameters that resolve (nodes that are no namespace).
Resolvable(c) == {n \in DOMAIN Declared(c) : ~Declared(c)[n].namespace}
ParamNames(c) == {get_param_name(c, n) : n \in Resolvable(c)}
\* The keys a request may carry: every node's dotted name (a namespace's
\* included), the pagination parameter "page" and the undeclared "zz".
QueryKeys(c) == {get_param_name(c, n) : n \in DOMAIN Declared(c)} \cup {"page", "zz"}
\* request.query_params: a mapping key -> raw string.
Requests(c) ==
    UNION {{q \in [S -> RawValues] : \A k \in S : k \notin ParamNames(c) => q[k] = "7"} :
           S \in {S \in SUBSET QueryKeys(c) : Cardinality(S) <= MaxParams}}

\* The object heaps before any instance exists.
ClassSerializers(c) == DOMAIN SerializerDecl(c) \ GlobalSerializers(c)
InitSerializers(c) ==
    [r \in (({"class"} \cup Instances) \X ClassSerializers(c))
           \cup ({"global"} \X GlobalSerializers(c)) |-> NewSerializer(c, r[2])]
InitFilters(c) ==
    [r \in ({"class"} \cup Instances) \X DOMAIN Declared(c) |->
        [aliases |-> Declared(c)[r[2]].aliases, filterset |-> ""]]
InitConstraints(c) ==
    [r \in ({"class"} \cup Instances) \X (1..Len(options(c).constraints)) |->
        [filterset |-> ""]]

\* A FilterSet instance that does not exist (yet, or any more); `methods` is
\* the log of the custom methods its filters called.
NoInstance ==
    [pc |-> "idle", query_params |-> <<>>, fields |-> "", constraints |-> "",
     i |-> 0, groupdict |-> <<>>, valuedict |-> <<>>, errordict |-> <<>>,
     known_parameters |-> <<>>, calls |-> <<>>, methods |-> <<>>, queryset |-> <<>>,
     exc |-> None]

\* FilterSet.__init__ followed by the first lines of filter_queryset and
\* get_groups: _fields and _constraints are deep copies held by the
\* instance, the queryset is the base queryset, the dicts are empty.
NewInstance(c, self, query_params) ==
    [NoInstance EXCEPT
        !.pc = IF compiled_fields(c) = <<>> THEN "constraints" ELSE "resolve",
        !.query_params = query_params,
        !.fields = deepcopy("class", self),
        !.constraints = deepcopy("class", self),
        !.i = 1,
        !.known_parameters = options(c).known_parameters]

\* The loop body of get_groups for the entries and errors of one field.
RECURSIVE AddEntries(_, _)
AddEntries(me, entries) ==
    IF entries = <<>> THEN me
    ELSE LET param == Head(entries).key
             entry == Head(entries).val
             group == IF Has(me.groupdict, entry.group)
                      THEN Get(me.groupdict, entry.group) ELSE <<>>
         IN  AddEntries(
                IF entry = None THEN me
                ELSE [me EXCEPT
                        !.groupdict = Put(@, entry.group, Put(group, param, entry)),
                        !.valuedict = (param :> entry.value) @@ @],
                Tail(entries))
\* A faulty loop body: the error is recorded, the value is not.
RECURSIVE AddErrorsOnly(_, _)
AddErrorsOnly(me, errors) ==
    IF errors = <<>> THEN me
    ELSE AddErrorsOnly([me EXCEPT
                            !.errordict = (Head(errors).key :> Head(errors).val) @@ @],
                       Tail(errors))
RECURSIVE AddErrors(_, _)
AddErrors(me, errors) ==
    IF errors = <<>> THEN me
    ELSE AddErrors([me EXCEPT
                        !.errordict = (Head(errors).key :> Head(errors).val) @@ @,
                        !.valuedict = (Head(errors).key :> empty) @@ @],
                   Tail(errors))

Called(call, args) == [k \in 1..Len(args) |-> [call |-> call, arg |-> args[k]]]

(***************************************************************************)
(* The steps of filter_queryset                                            *)
(***************************************************************************)
\* A view builds the FilterSet for a request of `requests` and calls
\* filter_queryset.
ConstructFor(self, requests) ==
    /\ inst[self].pc = "idle"
    /\ \E query_params \in requests :
          inst' = [inst EXCEPT ![self] = NewInstance(cls, self, query_params)]
    /\ LET to == deepcopy("class", self)
       IN  /\ serializers' = [r \in DOMAIN serializers |->
                                IF r[1] = to THEN NewSerializer(cls, r[2])
                                ELSE serializers[r]]
           /\ filters' = [r \in DOMAIN filters |->
                            IF r[1] = to THEN filters[<<"class", r[2]>>] ELSE filters[r]]
           /\ constraints' = [r \in DOMAIN constraints |->
                                IF r[1] = to THEN constraints[<<"class", r[2]>>]
                                ELSE constraints[r]]
    /\ UNCHANGED <<cls, cin, cout>>

Construct(self) == ConstructFor(self, Requests(cls))

\* get_groups, one pass of `for _, field in fields.items()`.
\* A faulty registry: the parameters that failed validation are left out.
extend_entries(known_parameters, entries, errors) == known_parameters \o Keys(entries)
\* known_parameters.extend((*entries, *errors))
extend(known_parameters, entries, errors) ==
    known_parameters \o Keys(entries) \o Keys(errors)
Resolve(self, me, field, calls, r) ==
    /\ serializers' = r.H.serializers
    /\ filters' = [r.H.filters EXCEPT ![<<me.fields, field>>].filterset = ""]
    /\ inst' = [inst EXCEPT ![self] =
          IF r.status # "ok"
          THEN [me EXCEPT !.pc = "raised", !.exc = r.exc, !.calls = calls,
                          !.methods = @ \o r.H.called]
          ELSE [AddErrors(AddEntries(me, r.entries), r.errors) EXCEPT
                   !.pc = IF me.i = Len(compiled_fields(cls))
                          THEN "constraints" ELSE "resolve",
                   !.i = me.i + 1,
                   !.calls = calls,
                   !.methods = @ \o r.H.called,
                   !.known_parameters = extend(@, r.entries, r.errors)]]
ResolveBound(self, me, field, r) ==
    Resolve(self, me, field, me.calls \o Called("resolve_entry", r.attempted), r)
ResolveIn(self, me, field) ==
    ResolveBound(self, me, field,
        resolve(cls, me.fields, field, me.query_params,
                [serializers |-> serializers,
                 filters |-> [filters EXCEPT ![<<me.fields, field>>].filterset = self],
                 called |-> <<>>]))
ResolveField(self) ==
    /\ inst[self].pc = "resolve"
    /\ ResolveIn(self, inst[self], compiled_fields(cls)[inst[self].i])
    /\ UNCHANGED <<cls, constraints, cin, cout>>

\* get_groups: merge_errors(errordict, self.handle_constraints(valuedict))
HandleConstraints(self) ==
    LET me == inst[self]
        r == handle_constraints(cls, me.constraints, self, me.valuedict, constraints)
    IN  /\ me.pc = "constraints"
        /\ constraints' = r.heap
        /\ inst' = [inst EXCEPT ![self] =
              [me EXCEPT !.pc = "unknown",
                         !.errordict = merge_errors(@, r.errors),
                         !.calls = @ \o Called("check", r.checked)]]
        /\ UNCHANGED <<cls, serializers, filters, cin, cout>>

\* get_groups: `if self.options.handle_unknown_parameters: ...`
HandleUnknownParameters(self) ==
    LET me == inst[self]
        order == CHOOSE seq \in [1..Cardinality(DOMAIN me.query_params) -> DOMAIN me.query_params] :
                    Range(seq) = DOMAIN me.query_params
        unknown == SelectSeq(order, LAMBDA field : field \notin Range(me.known_parameters))
    IN  /\ me.pc = "unknown"
        /\ inst' = [inst EXCEPT ![self] =
              IF options(cls).handle_unknown_parameters
              THEN [me EXCEPT
                      !.pc = "errors",
                      !.calls = Append(@, [call |-> "unknown", arg |-> ""]),
                      !.errordict =
                          IF unknown # <<>>
                          THEN merge_errors(@, handle_unknown_parameters(
                                                  unknown, me.known_parameters))
                          ELSE @]
              ELSE [me EXCEPT !.pc = "errors"]]
        /\ UNCHANGED <<cls, serializers, filters, constraints, cin, cout>>

\* A faulty hook: the errors are noted and the call returns.
handle_errors_returns(me) ==
    [me EXCEPT !.pc = "chain",
               !.calls = Append(@, [call |-> "handle_errors", arg |-> ""])]

\* FilterSet.handle_errors: raise ValidationError(errordict)
handle_errors(me) ==
    [me EXCEPT !.pc = "raised",
               !.exc = [t |-> "ValidationError", detail |-> me.errordict],
               !.calls = Append(@, [call |-> "handle_errors", arg |-> ""])]

\* get_groups: `if errordict: self.handle_errors(errordict)`, else the
\* return to filter_queryset.
HandleErrors(self) ==
    LET me == inst[self]
    IN  /\ me.pc = "errors"
        /\ inst' = [inst EXCEPT ![self] =
              IF DOMAIN me.errordict # {} THEN handle_errors(me)
              ELSE [me EXCEPT !.pc = "chain"]]
        /\ UNCHANGED <<cls, serializers, filters, constraints, cin, cout>>

\* filter_queryset: the "chain" entries, each added on its own.
FilterChain(self) ==
    LET me == inst[self]
        entries == IF Has(me.groupdict, chain) THEN Get(me.groupdict, chain) ELSE <<>>
    IN  /\ me.pc = "chain"
        /\ inst' = [inst EXCEPT ![self] =
              [me EXCEPT !.pc = "groups",
                         !.queryset = ChainFrom(@, entries),
                         !.groupdict = SelectSeq(@, LAMBDA g : g.key # chain)]]
        /\ UNCHANGED <<cls, serializers, filters, constraints, cin, cout>>

\* filter_queryset: the named groups, by root.
FilterGroups(self) ==
    LET me == inst[self]
    IN  /\ me.pc = "groups"
        /\ inst' = [inst EXCEPT ![self] =
              [me EXCEPT !.pc = "get_queryset",
                         !.queryset = GroupsFrom(cls, @, Partition(me.groupdict, <<>>))]]
        /\ UNCHANGED <<cls, serializers, filters, constraints, cin, cout>>

\* filter_queryset: return self.get_queryset(queryset, valuedict)
GetQueryset(self) ==
    LET me == inst[self]
    IN  /\ me.pc = "get_queryset"
        /\ inst' = [inst EXCEPT ![self] =
              [me EXCEPT !.pc = "done",
                         !.calls = Append(@, [call |-> "get_queryset", arg |-> ""])]]
        /\ UNCHANGED <<cls, serializers, filters, constraints, cin, cout>>

\* The request is over: the instance and the copies it holds are dropped.
Discard(self) ==
    /\ inst[self].pc \in {"done", "raised"}
    /\ inst' = [inst EXCEPT ![self] = NoInstance]
    /\ serializers' = [r \in DOMAIN serializers |->
                         IF r[1] = self THEN NewSerializer(cls, r[2]) ELSE serializers[r]]
    /\ filters' = [r \in DOMAIN filters |->
                     IF r[1] = self THEN InitFilters(cls)[r] ELSE filters[r]]
    /\ constraints' = [r \in DOMAIN constraints |->
                         IF r[1] = self THEN InitConstraints(cls)[r] ELSE constraints[r]]
    /\ UNCHANGED <<cls, cin, cout>>

Step(self) ==
    \/ Construct(self)
    \/ ResolveField(self)
    \/ HandleConstraints(self)
    \/ HandleUnknownParameters(self)
    \/ HandleErrors(self)
    \/ FilterChain(self)
    \/ FilterGroups(self)
    \/ GetQueryset(self)
    \/ Discard(self)

Init ==
    /\ cls \in Classes
    /\ serializers = InitSerializers(cls)
    /\ filters = InitFilters(cls)
    /\ constraints = InitConstraints(cls)
    /\ inst = [self \in Instances |-> NoInstance]
    /\ cin = None
    /\ cout = None

\* One FilterSet instance at a time, request after request.
Next == Step("i1")

Spec == Init /\ [][Next]_vars

(***************************************************************************)
(* Two instances of one class, their requests interleaved                  *)
(***************************************************************************)
\* The requests of the interleaved runs: no parameter at all, or every
\* declared parameter with the same raw value.
SharedRequests(c) ==
    {<<>>} \cup {[k \in ParamNames(c) |-> raw] : raw \in {"7", "x", NulRaw}}

ConstructShared(self) == ConstructFor(self, SharedRequests(cls))

StepShared(self) ==
    \/ ConstructShared(self)
    \/ ResolveField(self)
    \/ HandleConstraints(self)
    \/ HandleUnknownParameters(self)
    \/ HandleErrors(self)
    \/ FilterChain(self)
    \/ FilterGroups(self)
    \/ GetQueryset(self)
    \/ Discard(self)

NextShared == \E self \in Instances : StepShared(self)

SpecShared == Init /\ [][NextShared]_vars

(***************************************************************************)
(* Constraint.check on its own                                             *)
(***************************************************************************)
\* The number of parameter names a constraint and its values draw on.
MaxNames == 3
\* The most names in `fields` and in `depends_on` of a Dependency.
MaxDeps == 2

ParameterPool == <<"a", "b", "c", "d", "e">>
FieldNames == {ParameterPool[k] : k \in 1..MaxNames}
SeqsOf(S, lo, hi) == UNION {[1..n -> S] : n \in lo..hi}
Distinct(s) == \A i, j \in DOMAIN s : i # j => s[i] # s[j]
\* The values mappings: a parsed value or the empty sentinel per key.
ValueDicts == UNION {[S -> {IntValue(1), empty}] : S \in SUBSET FieldNames}
Messages == {"", "custom"}

\* The constraints of the isolated calls and their values.
\* MutuallyExclusive and MutuallyInclusive assert len(fields) > 1; the
\* fields of a Dependency are distinct names.
ConstraintInput ==
    \/ \E m \in Messages, f \in SeqsOf(FieldNames, 2, MaxNames), v \in ValueDicts :
          cin = [constraint |-> MutuallyExclusive(m, f), values |-> v]
    \/ \E m \in Messages, f \in SeqsOf(FieldNames, 2, MaxNames), v \in ValueDicts :
          cin = [constraint |-> MutuallyInclusive(m, f), values |-> v]
    \/ \E m \in Messages, f \in {s \in SeqsOf(FieldNames, 0, MaxDeps) : Distinct(s)},
           d \in SeqsOf(FieldNames, 0, MaxDeps), v \in ValueDicts :
          cin = [constraint |-> Dependency(m, f, d), values |-> v]

\* What a call of check did: it returned, or it raised a ValidationError.
Outcome(detail) ==
    IF detail = None THEN [t |-> "returned"]
    ELSE [t |-> "ValidationError", detail |-> detail]

\* constraint.check(values)
Check ==
    /\ cin # None
    /\ cout = None
    /\ cout' = Outcome(check(cin.constraint, cin.values))
    /\ UNCHANGED <<cls, serializers, filters, constraints, inst, cin>>

InitConstraint ==
    /\ cls = "UserFilterSet"
    /\ serializers = InitSerializers(cls)
    /\ filters = InitFilters(cls)
    /\ constraints = InitConstraints(cls)
    /\ inst = [self \in Instances |-> NoInstance]
    /\ ConstraintInput
    /\ cout = None

NextConstraint == Check

SpecConstraint == InitConstraint /\ [][NextConstraint]_vars

(***************************************************************************)
(* FilterSet.handle_constraints on its own                                 *)
(***************************************************************************)
\* The most constraints of one get_constraints() list.
MaxConstraints == 2

\* The constraints the lists are made of: the built-in ones, and
\* MyConstraint raising a plain message, a list of messages, a mapping with
\* a key of its own and a mapping keyed by a field.
ConstraintPool ==
    {MutuallyInclusive("", <<"a", "b", "c">>),
     MutuallyExclusive("", <<"a", "b">>),
     Dependency("", <<"a">>, <<"c">>),
     Dependency("custom", <<"b">>, <<"c">>),
     MyConstraint(StrDetail(Msg("something went wrong", <<>>)), "a"),
     MyConstraint(ListDetail(<<Msg("first", <<>>), Msg("second", <<>>)>>), "b"),
     MyConstraint(DictDetail("custom" :> ListDetail(<<Msg("something went wrong", <<>>)>>)), "a"),
     MyConstraint(DictDetail("a" :> ListDetail(<<Msg("not that one", <<>>)>>)), "a")}

\* instance.handle_constraints(values), on an instance whose
\* get_constraints() returns cin.constraints.
HandleConstraintsOf ==
    /\ cin # None
    /\ cout = None
    /\ cout' = ConstraintsFrom(cin.constraints, "i1", "i1", cin.values,
                    [k |-> 1, errors |-> <<>>, checked |-> <<>>,
                     heap |-> [r \in {"i1"} \X DOMAIN cin.constraints |->
                                  [filterset |-> ""]]])
    /\ UNCHANGED <<cls, serializers, filters, constraints, inst, cin>>

InitHandle ==
    /\ cls = "UserFilterSet"
    /\ serializers = InitSerializers(cls)
    /\ filters = InitFilters(cls)
    /\ constraints = InitConstraints(cls)
    /\ inst = [self \in Instances |-> NoInstance]
    /\ \E n \in 0..MaxConstraints :
          \E list \in [1..n -> ConstraintPool], v \in ValueDicts :
             cin = [constraints |-> list, values |-> v]
    /\ cout = None

NextHandle == HandleConstraintsOf

SpecHandle == InitHandle /\ [][NextHandle]_vars

(***************************************************************************)
(* FilterSet.get_group_entry on its own                                    *)
(***************************************************************************)
\* The most entries of one group.
MaxEntries == 3


\* The Entry of member `name`: with or without an expression, with or
\* without aliases.
Member(group, name, expression, aliases) ==
    [key |-> name,
     val |-> Entry(group,
                   IF aliases THEN [t |-> "dict", v |-> (("alias_" \o name) :> "F")]
                   ELSE None,
                   IntValue(7),
                   IF expression THEN Q("AND", FALSE, <<Pair(name, IntValue(7))>>)
                   ELSE None)]

\* instance.get_group_entry(group, entries)
GetGroupEntry ==
    /\ cin # None
    /\ cout = None
    /\ cout' = get_group_entry(cls, cin.group, cin.entries)
    /\ UNCHANGED <<cls, serializers, filters, constraints, inst, cin>>

\* The groups "names" (OR in QuietFilterSet.Meta.combinators) and "other",
\* with up to MaxEntries members of distinct names in any order.
InitGroupEntry ==
    /\ cls \in {"UserFilterSet", "QuietFilterSet"}
    /\ serializers = InitSerializers(cls)
    /\ filters = InitFilters(cls)
    /\ constraints = InitConstraints(cls)
    /\ inst = [self \in Instances |-> NoInstance]
    /\ \E group \in {names, other}, n \in 0..MaxEntries :
          \E keys \in {k \in [1..n -> {ParameterPool[j] : j \in 1..MaxEntries}] : Distinct(k)},
             expression \in [1..n -> BOOLEAN], aliases \in [1..n -> BOOLEAN] :
             cin = [group |-> group,
                    entries |-> [k \in 1..n |->
                                    Member(group, keys[k], expression[k], aliases[k])]]
    /\ cout = None

NextGroupEntry == GetGroupEntry

SpecGroupEntry == InitGroupEntry /\ [][NextGroupEntry]_vars

(***************************************************************************)
(* The named groups of filter_queryset on their own                        *)
(***************************************************************************)
\* The most named groups get_groups returns.
MaxGroups == 3

\* Group names, plain and dotted, as the Entry of a custom method may carry.
GroupNames ==
    {<<"g">>, g_a, <<"g", ".", "a", "b">>, g_b, <<"g", ".", "a", ".", "x">>,
     <<"h">>, <<"h", ".", "a">>}

\* filter_queryset after the "chain" entries: the partition by root and the
\* loop over the roots, on the base queryset.
FilterNamedGroups ==
    /\ cin # None
    /\ cout = None
    /\ cout' = [queryset |-> GroupsFrom(cls, <<>>, Partition(cin.groupdict, <<>>))]
    /\ UNCHANGED <<cls, serializers, filters, constraints, inst, cin>>

\* Up to MaxGroups groups of distinct names in any order, each with one
\* Entry, with or without an expression, in a class with and in a class
\* without Meta.combinators for them.
InitNamespace ==
    /\ cls \in {"UserFilterSet", "GroupFilterSet"}
    /\ serializers = InitSerializers(cls)
    /\ filters = InitFilters(cls)
    /\ constraints = InitConstraints(cls)
    /\ inst = [self \in Instances |-> NoInstance]
    /\ \E n \in 0..MaxGroups :
          \E groups \in {k \in [1..n -> GroupNames] : Distinct(k)},
             expression \in [1..n -> BOOLEAN] :
             cin = [groupdict |->
                      [k \in 1..n |->
                          [key |-> groups[k],
                           val |-> <<Member(groups[k], ParameterPool[k],
                                            expression[k], FALSE)>>]]]
    /\ cout = None

NextNamespace == FilterNamedGroups

SpecNamespace == InitNamespace /\ [][NextNamespace]_vars

(***************************************************************************)
(* fill_q_template on its own                                              *)
(***************************************************************************)
\* The most leaves of a template.
MaxLeaves == 3

\* The leaves of a template: a bare field path, Q("username"), or a
\* condition that already has a value, Q(email=1).
Leaves == {Path("username"), Pair("email", IntValue(1))}

\* The Q objects over n leaves and no nested Q.
InnerQs(n) ==
    {Q(connector, negated, children) :
        connector \in {"AND", "OR"}, negated \in BOOLEAN, children \in [1..n -> Leaves]}

\* The children lists with n leaves in all: each child a leaf or a Q of
\* leaves.
RECURSIVE ChildLists(_)
ChildLists(n) ==
    IF n = 0 THEN {<<>>}
    ELSE UNION {{<<child>> \o rest :
                    child \in (IF k = 1 THEN Leaves ELSE {}) \cup InnerQs(k),
                    rest \in ChildLists(n - k)} : k \in 1..n}

\* The templates with n leaves: Q(), Q("username"), ~Q("username") |
\* Q(email=1), Q(~Q("username"), Q("username") | Q("username")), ...
Templates(n) ==
    {Q(connector, negated, children) :
        connector \in {"AND", "OR"}, negated \in BOOLEAN, children \in ChildLists(n)}

\* fill_q_template(template, value=value), and the same call on ~template
\* as resolve_entry_attrs makes it for a node with negate=True.
FillTemplate ==
    /\ cin # None
    /\ cout = None
    /\ cout' = [filled |-> fill_q_template(cin.template, cin.value),
                negated |-> fill_q_template(Invert(cin.template), cin.value)]
    /\ UNCHANGED <<cls, serializers, filters, constraints, inst, cin>>

\* A template of up to MaxLeaves leaves and a parsed value.
InitTemplate ==
    /\ cls = "UserFilterSet"
    /\ serializers = InitSerializers(cls)
    /\ filters = InitFilters(cls)
    /\ constraints = InitConstraints(cls)
    /\ inst = [self \in Instances |-> NoInstance]
    /\ \E n \in 0..MaxLeaves :
          \E given \in Templates(n), parsed \in {IntValue(7), Str("x")} :
             cin = [template |-> given, value |-> parsed]
    /\ cout = None

NextTemplate == FillTemplate

SpecTemplate == InitTemplate /\ [][NextTemplate]_vars

(***************************************************************************)
(* The name and the target field of one node                               *)
(***************************************************************************)
\* The most keys of a query.
MaxKeys == 2

\* Keys a query may carry: the dotted names of TreeFilterSet, and the bare
\* names its nodes go by.
NodeKeys ==
    {get_param_name("TreeFilterSet", n) : n \in DOMAIN TreeNodes}
    \cup {"email", "modified", "gte", "ln", "x", "len", "y", "lt"}

\* Filter.get_query_value(query_dict), with the name it looked up.
GetQueryValue ==
    /\ cin # None
    /\ cout = None
    /\ cout' = [call |-> "get_query_value",
                param |-> get_param_name(cls, cin.node),
                value |-> get_query_value(cin.query_dict,
                                          get_param_name(cls, cin.node))]
    /\ UNCHANGED <<cls, serializers, filters, constraints, inst, cin>>

\* Filter.get_db_field()
GetDbField ==
    /\ cin # None
    /\ cout = None
    /\ cout' = [call |-> "get_db_field", field |-> get_db_field(cls, cin.node)]
    /\ UNCHANGED <<cls, serializers, filters, constraints, inst, cin>>

\* A node of TreeFilterSet and a query of up to MaxKeys keys.
InitNode ==
    /\ cls = "TreeFilterSet"
    /\ serializers = InitSerializers(cls)
    /\ filters = InitFilters(cls)
    /\ constraints = InitConstraints(cls)
    /\ inst = [self \in Instances |-> NoInstance]
    /\ \E node \in DOMAIN Declared(cls) :
          \E keys \in {S \in SUBSET NodeKeys : Cardinality(S) <= MaxKeys} :
             \E query_dict \in [keys -> {"7", "8"}] :
                cin = [node |-> node, query_dict |-> query_dict]
    /\ cout = None

NextNode == GetQueryValue \/ GetDbField

SpecNode == InitNode /\ [][NextNode]_vars

(***************************************************************************)
(* Filter.resolve on one tree                                              *)
(***************************************************************************)
\* The most calls of resolve on the same root.
MaxResolves == 2

\* One pass of the loop of get_groups for the top-level field cin.root of
\* the instance "i1": the field is bound, resolve is called on the query,
\* the field is unbound. The outcome r is kept with the one before it.
Outcome_of_resolve(r, n, previous) ==
    /\ serializers' = r.H.serializers
    /\ filters' = [r.H.filters EXCEPT ![<<"i1", cin.root>>].filterset = ""]
    /\ cout' = [n |-> n, status |-> r.status,
                entries |-> IF r.status = "ok" THEN r.entries ELSE <<>>,
                errors |-> IF r.status = "ok" THEN r.errors ELSE <<>>,
                attempted |-> r.attempted,
                previous |-> previous]
ResolveRoot ==
    /\ cin # None
    /\ IF cout = None THEN TRUE ELSE cout.n < MaxResolves
    /\ Outcome_of_resolve(
          resolve(cls, "i1", cin.root, cin.query_dict,
                  [serializers |-> serializers,
                   filters |-> [filters EXCEPT ![<<"i1", cin.root>>].filterset = "i1"],
                   called |-> <<>>]),
          IF cout = None THEN 1 ELSE cout.n + 1,
          IF cout = None THEN <<>> ELSE cout.entries)
    /\ UNCHANGED <<cls, constraints, inst, cin>>

\* The dotted names of the tree under a root, the root's included.
TreeKeys(c, root) ==
    {get_param_name(c, n) : n \in {root} \cup Range(get_all_children(c, root))}

\* A top-level field of TreeFilterSet and a query over the names of its
\* tree.
InitResolve ==
    /\ cls = "TreeFilterSet"
    /\ serializers = InitSerializers(cls)
    /\ filters = InitFilters(cls)
    /\ constraints = InitConstraints(cls)
    /\ inst = [self \in Instances |-> NoInstance]
    /\ \E root \in Range(compiled_fields(cls)) :
          \E keys \in SUBSET TreeKeys(cls, root) :
             \E query_dict \in [keys -> RawValues] :
                cin = [root |-> root, query_dict |-> query_dict]
    /\ cout = None

NextResolve == ResolveRoot

SpecResolve == InitResolve /\ [][NextResolve]_vars

(***************************************************************************)
(* FilterSet._compile_fields on its own                                    *)
(***************************************************************************)
\* The most names Meta.fields lists.
MaxFields == 3

\* itertools.chain.from_iterable over the params of a list of visits.
RECURSIVE chain_params(_)
chain_params(visits) ==
    IF visits = <<>> THEN <<>>
    ELSE Head(visits).params \o chain_params(Tail(visits))

\* The Filter objects a list of visits returned, by node.
RECURSIVE visited(_)
visited(visits) ==
    IF visits = <<>> THEN [n \in {} |-> None]
    ELSE Head(visits).tree @@ visited(Tail(visits))

\* A faulty _visit: no kept node is turned into a namespace.
Kept_resolvable(n, children, namespace) ==
    n :> [children |-> children, namespace |-> FALSE]

\* A Filter object as _visit leaves it: its children and namespace flag.
Kept(n, children, namespace) == n :> [children |-> children, namespace |-> namespace]

\* FilterSet._visit(fields, f): the params seen, whether f is returned
\* (and not None), and the Filter objects of the returned subtree.
RECURSIVE visit(_, _, _)
visit(c, fields, n) ==
    LET f == Declared(c)[n]
        param == get_param_name(c, n)
        keep == param \in Range(fields)
        visits == [k \in 1..Len(f.children) |-> visit(c, fields, f.children[k])]
        params == chain_params(visits)
        children == SelectSeq(f.children,
                              LAMBDA child :
                                  \E k \in 1..Len(visits) :
                                      f.children[k] = child /\ visits[k].f)
    IN  IF f.children = <<>>
        THEN [params |-> <<param>>, f |-> keep,
              tree |-> IF keep THEN Kept(n, <<>>, f.namespace) ELSE visited(<<>>)]
        ELSE IF children # <<>>
        THEN [params |-> Append(params, param), f |-> TRUE,
              tree |-> Kept(n, children, f.namespace \/ ~keep) @@ visited(visits)]
        ELSE IF keep
        THEN [params |-> Append(params, param), f |-> TRUE,
              tree |-> Kept(n, <<>>, f.namespace)]
        ELSE [params |-> params, f |-> FALSE, tree |-> visited(<<>>)]

\* FilterSet._compile_fields() under Meta.fields = fields (None: not set).
compile_fields(c, fields) ==
    LET roots == compiled_fields(c)
        visits == [k \in 1..Len(roots) |-> visit(c, fields.v, roots[k])]
        available == chain_params(visits)
        unknown == SelectSeq(fields.v, LAMBDA field : field \notin Range(available))
    IN  IF fields = None
        THEN [status |-> "ok", ret |-> roots,
              tree |-> [n \in DOMAIN Declared(c) |->
                          [children |-> Declared(c)[n].children,
                           namespace |-> Declared(c)[n].namespace]]]
        ELSE IF unknown # <<>>
        THEN [status |-> "ValueError", unknown |-> unknown, available |-> available]
        ELSE [status |-> "ok",
              ret |-> SelectSeq(roots,
                                LAMBDA root : \E k \in 1..Len(roots) :
                                                  roots[k] = root /\ visits[k].f),
              tree |-> visited(visits)]

\* __init_subclass__ up to the compiled tree.
CompileFields ==
    /\ cin # None
    /\ cout = None
    /\ cout' = compile_fields(cin.cls, cin.fields)
    /\ UNCHANGED <<cls, serializers, filters, constraints, inst, cin>>

\* The dotted names of the declared tree.
DottedNames(c) == {get_param_name(c, n) : n \in DOMAIN Declared(c)}

\* SomeFilterSet without Meta.fields, or with up to MaxFields distinct
\* names out of its dotted names and the undeclared "zz", in any order.
InitFields ==
    /\ cls = "UserFilterSet"
    /\ serializers = InitSerializers(cls)
    /\ filters = InitFilters(cls)
    /\ constraints = InitConstraints(cls)
    /\ inst = [self \in Instances |-> NoInstance]
    /\ \/ cin = [cls |-> "SomeFilterSet", fields |-> None]
       \/ \E n \in 0..MaxFields :
             \E fields \in {k \in [1..n -> DottedNames("SomeFilterSet") \cup {"zz"}] :
                               Distinct(k)} :
                cin = [cls |-> "SomeFilterSet", fields |-> [t |-> "list", v |-> fields]]
    /\ cout = None

NextFields == CompileFields

SpecFields == InitFields /\ [][NextFields]_vars

(***************************************************************************)
(* Filter.__init__ on its own                                              *)
(***************************************************************************)
\* The most dot-separated segments of a group name.
MaxSegments == 2

Letters ==
    {"a", "b", "c", "d", "e", "f", "g", "h", "i", "j", "k", "l", "m", "n",
     "o", "p", "q", "r", "s", "t", "u", "v", "w", "x", "y", "z"}

Digits == {"0", "1", "2", "3", "4", "5", "6", "7", "8", "9"}

\* str.isidentifier(): not empty, a letter or underscore first, then
\* letters, digits and underscores.
isidentifier(s) ==
    /\ s # <<>>
    /\ s[1] \in Letters \cup {"_"}
    /\ \A k \in 1..Len(s) : s[k] \in Letters \cup Digits \cup {"_"}

\* ".".join(segments)
RECURSIVE join(_)
join(segments) ==
    IF Len(segments) = 1 THEN Head(segments)
    ELSE Head(segments) \o <<".">> \o join(Tail(segments))

\* The checks of Filter.__init__ on its keyword arguments, in its order;
\* the first that fails raises.
Filter_init(kwargs) ==
    IF kwargs.group # None /\ ~isidentifier(kwargs.group.v)
    THEN [status |-> "ValueError",
          message |-> "Group names must be valid Python identifiers"]
    ELSE IF kwargs.blank # None /\ kwargs.blank.v \notin {"keep", "omit"}
    THEN [status |-> "ValueError",
          message |-> "blank must either be 'keep' or 'omit'"]
    ELSE IF kwargs.template /\ kwargs.lookup
    THEN [status |-> "ValueError",
          message |-> "'template' and 'lookup' cannot be used together"]
    ELSE IF kwargs.template /\ kwargs.field
    THEN [status |-> "ValueError",
          message |-> "'template' and 'field' cannot be used together"]
    ELSE IF kwargs.negate /\ kwargs.method
    THEN [status |-> "ValueError",
          message |-> "'method' and 'negate' cannot be used together"]
    ELSE [status |-> "ok", message |-> ""]

\* Filter(group=..., blank=..., template=..., ...)
NewFilter ==
    /\ cin # None
    /\ cout = None
    /\ cout' = Filter_init(cin)
    /\ UNCHANGED <<cls, serializers, filters, constraints, inst, cin>>

\* Segments a group name is joined from: identifiers, the reserved name,
\* and strings that are no identifier (a leading digit, a dash, nothing).
Segments ==
    {chain, names, <<"s", "u", "b">>, <<"_", "x", "1">>,
     <<"2", "x">>, <<"a", "-", "b">>, <<>>}

\* No group or one of up to MaxSegments segments; each other argument
\* given or left out.
InitFilter ==
    /\ cls = "UserFilterSet"
    /\ serializers = InitSerializers(cls)
    /\ filters = InitFilters(cls)
    /\ constraints = InitConstraints(cls)
    /\ inst = [self \in Instances |-> NoInstance]
    /\ \E n \in 0..MaxSegments :
          \E segments \in [1..n -> Segments],
             policy \in {None, Str("keep"), Str("omit"), Str("drop")},
             given \in [{"template", "lookup", "field", "negate", "method"} -> BOOLEAN] :
             cin = [group |-> IF n = 0 THEN None ELSE Str(join(segments)),
                    blank |-> policy,
                    template |-> given["template"], lookup |-> given["lookup"],
                    field |-> given["field"], negate |-> given["negate"],
                    method |-> given["method"]]
    /\ cout = None

NextFilter == NewFilter

SpecFilter == InitFilter /\ [][NextFilter]_vars

(***************************************************************************)
(* Vocabulary of the properties                                            *)
(***************************************************************************)
IsPrefix(s, t) == Len(s) <= Len(t) /\ SubSeq(t, 1, Len(s)) = s

\* The nodes of class c in the order get_groups resolves them: each
\* top-level field followed by its descendants, namespaces left out.
RECURSIVE NodesFrom(_, _)
NodesFrom(c, k) ==
    IF k > Len(compiled_fields(c)) THEN <<>>
    ELSE <<compiled_fields(c)[k]>> \o get_all_children(c, compiled_fields(c)[k])
         \o NodesFrom(c, k + 1)
ResolutionOrder(c) == SelectSeq(NodesFrom(c, 1), LAMBDA n : ~Declared(c)[n].namespace)

\* The calls get_groups makes before it decides whether to report.
Pipeline(c) ==
    Called("resolve_entry",
           [k \in 1..Len(ResolutionOrder(c)) |-> get_param_name(c, ResolutionOrder(c)[k])])
    \o Called("check", [k \in 1..Len(options(c).constraints) |-> ToString(k)])
    \o (IF options(c).handle_unknown_parameters
        THEN <<[call |-> "unknown", arg |-> ""]>> ELSE <<>>)

CallsOf(self, call) == SelectSeq(inst[self].calls, LAMBDA e : e.call = call)

\* get_groups has merged every error and is at `if errordict:` or beyond.
Merged(self) ==
    \/ inst[self].pc \in {"errors", "chain", "groups", "get_queryset", "done"}
    \/ inst[self].pc = "raised" /\ inst[self].exc.t = "ValidationError"

\* get_groups returned to filter_queryset.
Returned(self) == inst[self].pc \in {"chain", "groups", "get_queryset", "done"}

\* The items of one entry of an error mapping.
Items(detail) == IF detail.t = "list" THEN detail.v ELSE <<detail>>

(***************************************************************************)
(* C1                                                                      *)
(***************************************************************************)
\* C1: with the default handle_errors, a non-empty merged error mapping is
\* raised as one ValidationError carrying that mapping; filter_queryset then
\* has applied no alias and no filter to the base queryset and has not called
\* get_queryset, and get_groups returns only with an empty error mapping.
C1_ErrorsFailTheRequest ==
    \A self \in Instances :
        LET me == inst[self]
        IN  /\ Returned(self) => DOMAIN me.errordict = {}
            /\ (Merged(self) /\ DOMAIN me.errordict # {} /\ me.pc # "errors") =>
                    /\ me.pc = "raised"
                    /\ me.exc = [t |-> "ValidationError", detail |-> me.errordict]
                    /\ Len(CallsOf(self, "handle_errors")) = 1
                    /\ me.queryset = <<>>
                    /\ CallsOf(self, "get_queryset") = <<>>

\* A request with a resolved entry and an error has been refused.
C1_Witness ==
    /\ inst["i1"].pc = "raised"
    /\ inst["i1"].exc.t = "ValidationError"
    /\ inst["i1"].groupdict # <<>>
    /\ DOMAIN inst["i1"].errordict # {}

(***************************************************************************)
(* C2                                                                      *)
(***************************************************************************)
\* C2: get_groups resolves every non-namespace node of every top-level
\* field, then checks every constraint, then looks for unknown parameters
\* (if enabled), in that order; a ValidationError leaves get_groups only
\* through handle_errors, which is called at most once and after all three
\* passes.
C2_ReportAfterAllPasses ==
    \A self \in Instances :
        LET me == inst[self]
            passes == SelectSeq(me.calls,
                                LAMBDA e : e.call \notin {"handle_errors", "get_queryset"})
            reports == CallsOf(self, "handle_errors")
        IN  /\ IsPrefix(passes, Pipeline(cls))
            /\ Len(reports) <= 1
            /\ reports # <<>> => IsPrefix(Pipeline(cls) \o reports, me.calls)
            /\ me.exc.t = "ValidationError" => reports # <<>>
            /\ Merged(self) => passes = Pipeline(cls)
            /\ (me.pc \in {"constraints", "unknown"} /\ DOMAIN me.errordict # {}) =>
                    IsPrefix(Called("resolve_entry",
                                [k \in 1..Len(ResolutionOrder(cls)) |->
                                    get_param_name(cls, ResolutionOrder(cls)[k])]),
                             passes)

\* The first parameter resolved failed validation, and the report came
\* after the whole pipeline.
C2_Witness ==
    /\ inst["i1"].pc = "raised"
    /\ inst["i1"].exc.t = "ValidationError"
    /\ get_param_name(cls, ResolutionOrder(cls)[1]) \in DOMAIN inst["i1"].exc.detail
    /\ Len(options(cls).constraints) > 1
    /\ inst["i1"].calls = Pipeline(cls) \o <<[call |-> "handle_errors", arg |-> ""]>>

(***************************************************************************)
(* C3                                                                      *)
(***************************************************************************)
\* The non-namespace nodes no value field is found for, in resolution order.
Unresolvable(c) ==
    SelectSeq(ResolutionOrder(c),
              LAMBDA n : /\ get_serializer(c, n) = ""
                         /\ FilterSet_get_serializer(c, get_param_name(c, n), None) = None)

\* The raw value of `param` is absent or passes the string check parse_value
\* makes before it looks for the value field.
PassesStringCheck(query_params, param) ==
    \/ param \notin DOMAIN query_params
    \/ CharField_run_validation(query_params[param]).status = "ok"

\* get_groups is past its resolution loop, or left it by an exception.
ResolutionOver(self) == inst[self].pc \notin {"idle", "resolve"}

\* C3 as stated: when a non-namespace node has no value field, every request
\* ends in a ValueError (naming the first such node), no such node is a key
\* of the aggregated errors, and handle_errors is not called.
C3_AlwaysValueError ==
    \A self \in Instances :
        LET me == inst[self]
            nodes == Unresolvable(cls)
        IN  (ResolutionOver(self) /\ nodes # <<>>) =>
                /\ me.pc = "raised"
                /\ me.exc.t = "ValueError"
                /\ me.exc.param = get_param_name(cls, nodes[1])
                /\ \A k \in DOMAIN nodes :
                        get_param_name(cls, nodes[k]) \notin DOMAIN me.errordict
                /\ CallsOf(self, "handle_errors") = <<>>

\* C3, amended: the request ends in a ValueError naming the first node
\* without a value field whose raw value is absent or passes the preliminary
\* string check; that parameter is no key of the aggregated errors and
\* handle_errors is not called. When the raw value of every such node fails
\* the string check, no ValueError is raised and each of them is a key of the
\* aggregated errors, with the detail of the string check.
C3_ValueErrorUnlessStringCheckFails ==
    \A self \in Instances :
        LET me == inst[self]
            nodes == Unresolvable(cls)
            reached == SelectSeq(nodes, LAMBDA n :
                            PassesStringCheck(me.query_params, get_param_name(cls, n)))
        IN  (ResolutionOver(self) /\ nodes # <<>>) =>
                IF reached # <<>>
                THEN /\ me.pc = "raised"
                     /\ me.exc = ValueError("Serializer could not be resolved for",
                                            get_param_name(cls, reached[1]))
                     /\ get_param_name(cls, reached[1]) \notin DOMAIN me.errordict
                     /\ CallsOf(self, "handle_errors") = <<>>
                ELSE /\ me.exc.t # "ValueError"
                     /\ \A k \in DOMAIN nodes :
                            LET param == get_param_name(cls, nodes[k])
                            IN  /\ param \in DOMAIN me.errordict
                                /\ me.errordict[param] =
                                      CharField_run_validation(me.query_params[param]).detail

\* A ValueError left get_groups although another parameter had failed
\* validation before.
C3_Witness ==
    /\ Unresolvable(cls) # <<>>
    /\ inst["i1"].pc = "raised"
    /\ inst["i1"].exc.t = "ValueError"
    /\ DOMAIN inst["i1"].errordict # {}
    /\ CallsOf("i1", "handle_errors") = <<>>

(***************************************************************************)
(* C4                                                                      *)
(***************************************************************************)
\* The objects `owner` holds are the ones of both heaps h and g.
SameObjects(owner, h, g) ==
    /\ \A r \in DOMAIN h.serializers : r[1] = owner => h.serializers[r] = g.serializers[r]
    /\ \A r \in DOMAIN h.filters : r[1] = owner => h.filters[r] = g.filters[r]
    /\ \A r \in DOMAIN h.constraints : r[1] = owner => h.constraints[r] = g.constraints[r]

Heap == [serializers |-> serializers, filters |-> filters, constraints |-> constraints]
ClassHeap ==
    [serializers |-> InitSerializers(cls), filters |-> InitFilters(cls),
     constraints |-> InitConstraints(cls)]

\* C4, the state part: the objects of the class (compiled_fields with their
\* aliases, the declared serializer fields with their default and context,
\* Options.constraints) and the field objects the get_serializer hook hands
\* back are as they were declared, and every live instance holds nodes and
\* constraints of its own: not the class's, not another instance's.
C4_OwnCopies ==
    /\ SameObjects("class", Heap, ClassHeap)
    /\ SameObjects("global", Heap, ClassHeap)
    /\ \A a \in Instances :
          inst[a].pc # "idle" =>
              /\ inst[a].fields \notin {"class", "global"}
              /\ inst[a].constraints \notin {"class", "global"}
              /\ \A b \in Instances \ {a} :
                    inst[b].pc # "idle" =>
                        /\ inst[a].fields # inst[b].fields
                        /\ inst[a].constraints # inst[b].constraints

\* C4, the step part: a step of one instance leaves the objects every other
\* instance holds as they were.
C4_OthersUntouched ==
    \A b \in Instances :
        inst'[b] = inst[b] =>
            SameObjects(b, Heap,
                        [serializers |-> serializers', filters |-> filters',
                         constraints |-> constraints'])

\* C4: in every interleaving of the requests of two instances of a class,
\* the class-level objects and the hook's field objects stay unchanged, no
\* two instances share a node or constraint object, and no instance changes
\* the objects of another.
C4_NoSharedState == [](C4_OwnCopies) /\ [][C4_OthersUntouched]_vars

\* Both instances are in the middle of a request and each has set the
\* context of a serializer field in its own tree.
C4_Witness ==
    /\ \A a \in Instances :
          /\ inst[a].pc \in {"resolve", "constraints"}
          /\ \E r \in DOMAIN serializers : r[1] = a /\ serializers[r].context = a
    /\ inst["i1"].query_params # inst["i2"].query_params

(***************************************************************************)
(* C5                                                                      *)
(***************************************************************************)
\* C5: in the values mapping handed to the constraints, every parameter that
\* failed field validation is a key with the empty sentinel as its value,
\* and every parameter that resolved to an Entry is a key with the parsed
\* value of that Entry, whatever its depth in the tree; a supplied integer
\* is there as the integer (or list of integers) it parses to, a supplied
\* value that is no integer as the empty sentinel.
C5_ValuesOfFailedAndResolved ==
    \A self \in Instances :
        LET me == inst[self]
        IN  me.pc = "constraints" =>
                /\ \A param \in DOMAIN me.errordict :
                        param \in DOMAIN me.valuedict /\ me.valuedict[param] = empty
                /\ \A g \in DOMAIN me.groupdict :
                        \A e \in DOMAIN me.groupdict[g].val :
                            LET param == me.groupdict[g].val[e].key
                                entry == me.groupdict[g].val[e].val
                            IN  /\ param \in DOMAIN me.valuedict
                                /\ me.valuedict[param] = entry.value
                /\ \A n \in Resolvable(cls) :
                        LET param == get_param_name(cls, n)
                            raw == me.query_params[param]
                        IN  param \in DOMAIN me.query_params =>
                                IF IsInt(strip(raw))
                                THEN /\ param \in DOMAIN me.valuedict
                                     /\ me.valuedict[param] \in
                                            {IntValue(IntOf(strip(raw))),
                                             ListValue(<<IntOf(strip(raw))>>)}
                                ELSE strip(raw) # "" =>
                                     /\ param \in DOMAIN me.valuedict
                                     /\ me.valuedict[param] = empty
                                     /\ param \in DOMAIN me.errordict

\* The constraints are about to see a failed parent and the parsed value of
\* its child.
C5_Witness ==
    \E n \in DOMAIN Declared(cls) :
        /\ Declared(cls)[n].parent # ""
        /\ inst["i1"].pc = "constraints"
        /\ get_param_name(cls, Declared(cls)[n].parent) \in DOMAIN inst["i1"].query_params
        /\ get_param_name(cls, Declared(cls)[n].parent) \in DOMAIN inst["i1"].errordict
        /\ inst["i1"].valuedict[get_param_name(cls, Declared(cls)[n].parent)] = empty
        /\ get_param_name(cls, n) \in DOMAIN inst["i1"].valuedict
        /\ inst["i1"].valuedict[get_param_name(cls, n)] = IntValue(7)

(***************************************************************************)
(* C6                                                                      *)
(***************************************************************************)
\* C6 as stated: a declared parameter that is not in the request's query
\* parameters is no key of the values mapping handed to the constraints.
C6_AbsentIsNoKey ==
    \A self \in Instances :
        LET me == inst[self]
        IN  me.pc = "constraints" =>
                \A n \in Resolvable(cls) :
                    get_param_name(cls, n) \notin DOMAIN me.query_params =>
                        get_param_name(cls, n) \notin DOMAIN me.valuedict

(***************************************************************************)
(* C7                                                                      *)
(***************************************************************************)
UnknownDetail == ListDetail(<<Msg("This query parameter does not exist.", <<>>)>>)

\* The error mapping the next merge_errors call of get_groups merges into
\* errordict: the constraint errors, then the unknown-parameter errors.
Incoming(self) ==
    IF inst[self].pc = "constraints"
    THEN handle_constraints(cls, inst[self].constraints, self, inst[self].valuedict,
                            constraints).errors
    ELSE IF inst[self].pc = "unknown" /\ options(cls).handle_unknown_parameters
    THEN [param \in DOMAIN inst[self].query_params
                    \ Range(inst[self].known_parameters) |-> UnknownDetail]
    ELSE <<>>

\* The step is one of the two merges of get_groups.
Merges(self) ==
    /\ inst[self].pc \in {"constraints", "unknown"}
    /\ inst'[self].pc # inst[self].pc

\* Every key of either mapping is a key after the merge, and a key of only
\* one of them keeps its detail.
KeysKept(old, incoming, new) ==
    /\ DOMAIN new = DOMAIN old \cup DOMAIN incoming
    /\ \A key \in DOMAIN old \ DOMAIN incoming : new[key] = old[key]
    /\ \A key \in DOMAIN incoming \ DOMAIN old : new[key] = incoming[key]

\* C7 as stated: each merge keeps every error; under a key both mappings
\* have, the items of the earlier detail are followed by the items of the
\* later one, none dropped.
C7_NothingDropped ==
    [][\A self \in Instances :
          LET old == inst[self].errordict
              new == inst'[self].errordict
          IN  Merges(self) =>
                /\ KeysKept(old, Incoming(self), new)
                /\ \A key \in DOMAIN old \cap DOMAIN Incoming(self) :
                      Items(new[key]) = Items(old[key]) \o Items(Incoming(self)[key])
      ]_vars

\* C7, amended: each merge keeps every key; under a key both mappings have,
\* an earlier detail that is a list is extended by the items of the later
\* one in encounter order, while an earlier detail that is a mapping (the
\* per-item errors of a list field) stays as it is and a later list is
\* dropped.
C7_ListsConcatenatedElseFirstKept ==
    [][\A self \in Instances :
          LET old == inst[self].errordict
              new == inst'[self].errordict
          IN  Merges(self) =>
                /\ KeysKept(old, Incoming(self), new)
                /\ \A key \in DOMAIN old \cap DOMAIN Incoming(self) :
                      IF old[key].t = "list"
                      THEN new[key] = ListDetail(old[key].v \o Items(Incoming(self)[key]))
                      ELSE Incoming(self)[key].t = "list" => new[key] = old[key]
      ]_vars

\* The report carries, under one key, a field error followed by a
\* constraint error, and a non-field error next to them.
C7_Witness ==
    \E key \in DOMAIN inst["i1"].errordict :
        /\ inst["i1"].pc = "raised"
        /\ inst["i1"].exc.t = "ValidationError"
        /\ key \in DOMAIN inst["i1"].query_params
        /\ key \in DOMAIN inst["i1"].valuedict
        /\ inst["i1"].valuedict[key] = empty
        /\ inst["i1"].exc.detail[key].t = "list"
        /\ Len(inst["i1"].exc.detail[key].v) = 2
        /\ inst["i1"].exc.detail[key].v[1].msg \in
              {"A valid integer is required.", "Null characters are not allowed."}
        /\ inst["i1"].exc.detail[key].v[2].args # <<>>

(***************************************************************************)
(* C8                                                                      *)
(***************************************************************************)
\* The report names `key` as a parameter that does not exist.
ReportedUnknown(self, key) ==
    /\ key \in DOMAIN inst[self].errordict
    /\ \E k \in DOMAIN Items(inst[self].errordict[key]) :
          Items(inst[self].errordict[key])[k] = UnknownDetail.v[1]

\* C8: once the errors are merged, with unknown-parameter handling enabled a
\* key of the request is reported unknown exactly when it is neither a
\* configured known parameter nor the dotted name of a non-namespace node
\* (resolved, skipped or failed); with handling disabled no key is reported
\* unknown and only declared parameters and the non-field key carry errors.
C8_UnknownIffUndeclared ==
    \A self \in Instances :
        Merged(self) =>
            IF options(cls).handle_unknown_parameters
            THEN \A key \in DOMAIN inst[self].query_params :
                    ReportedUnknown(self, key) <=>
                        /\ key \notin Range(options(cls).known_parameters)
                        /\ key \notin ParamNames(cls)
            ELSE /\ \A key \in DOMAIN inst[self].errordict : ~ReportedUnknown(self, key)
                 /\ DOMAIN inst[self].errordict \subseteq
                        ParamNames(cls) \cup {NON_FIELD_ERRORS_KEY}

\* A request with an undeclared key, a known key and a parameter that
\* failed validation: only the first is reported unknown.
C8_Witness ==
    /\ options(cls).handle_unknown_parameters
    /\ inst["i1"].pc = "raised"
    /\ inst["i1"].exc.t = "ValidationError"
    /\ ReportedUnknown("i1", "zz")
    /\ "page" \in DOMAIN inst["i1"].query_params
    /\ \E key \in DOMAIN inst["i1"].query_params \cap ParamNames(cls) :
          /\ key \in DOMAIN inst["i1"].errordict
          /\ ~ReportedUnknown("i1", key)

(***************************************************************************)
(* C9                                                                      *)
(***************************************************************************)
\* check was called on a constraint of `type`.
Checked(type) == cin # None /\ cout # None /\ cin.constraint.type = type

\* The one non-field error of a constraint with a custom message.
CustomError(message) ==
    DictDetail(NON_FIELD_ERRORS_KEY :> ListDetail(<<Msg(message, <<>>)>>))

\* C9: MutuallyExclusive.check raises if and only if more than one position
\* of `fields` names a key of values, whatever the value under the key; the
\* detail is one non-field error, the custom message if one was given, else
\* the default message with the present fields in declared order.
C9_MutuallyExclusive ==
    Checked("MutuallyExclusive") =>
        LET fields == cin.constraint.fields
            present == SelectSeq(fields, LAMBDA field : field \in DOMAIN cin.values)
        IN  IF Len(present) > 1
            THEN /\ cout.t = "ValidationError"
                 /\ cout.detail =
                      IF cin.constraint.message # ""
                      THEN CustomError(cin.constraint.message)
                      ELSE DictDetail(NON_FIELD_ERRORS_KEY :> ListDetail(<<
                              Msg("The following fields are mutually exclusive, you may only provide one of them: %(fields)s",
                                  present)>>))
            ELSE cout.t = "returned"

\* Two of three fields are keys, one of them with the empty sentinel, and
\* the default message names the two.
C9_Witness ==
    /\ Checked("MutuallyExclusive")
    /\ cin.constraint.message = ""
    /\ Len(cin.constraint.fields) = 3
    /\ Cardinality(DOMAIN cin.values \cap Range(cin.constraint.fields)) = 2
    /\ \E field \in DOMAIN cin.values \cap Range(cin.constraint.fields) :
          cin.values[field] = empty
    /\ cout.t = "ValidationError"
    /\ Len(cout.detail.v[NON_FIELD_ERRORS_KEY].v[1].args) = 2

C11_MutuallyInclusive ==
    Checked("MutuallyInclusive") =>
        LET fields == cin.constraint.fields
            present == {k \in DOMAIN fields : fields[k] \in DOMAIN cin.values}
        IN  IF present # {} /\ present # DOMAIN fields
            THEN /\ cout.t = "ValidationError"
                 /\ cout.detail =
                      IF cin.constraint.message # ""
                      THEN CustomError(cin.constraint.message)
                      ELSE DictDetail(NON_FIELD_ERRORS_KEY :> ListDetail(<<
                              Msg("The following fields are mutually inclusive, you must provide them all at once or none of them: %(fields)s",
                                  fields)>>))
            ELSE cout.t = "returned"

\* One of three distinct fields is a key, with the empty sentinel as its
\* value, and the default message names all three.
C11_Witness ==
    /\ Checked("MutuallyInclusive")
    /\ cin.constraint.message = ""
    /\ Len(cin.constraint.fields) = 3
    /\ Distinct(cin.constraint.fields)
    /\ Cardinality(DOMAIN cin.values \cap Range(cin.constraint.fields)) = 1
    /\ \E field \in DOMAIN cin.values \cap Range(cin.constraint.fields) :
          cin.values[field] = empty
    /\ cout.t = "ValidationError"
    /\ cout.detail.v[NON_FIELD_ERRORS_KEY].v[1].args = cin.constraint.fields

(***************************************************************************)
(* C12                                                                     *)
(***************************************************************************)
\* What the k-th constraint of the list raised, filed by key: a mapping
\* keeps its keys, anything else goes under the non-field key.
Filed(k) ==
    LET raised == check(cin.constraints[k], cin.values)
    IN  IF raised = None THEN <<>>
        ELSE IF raised.t = "dict" THEN raised.v
        ELSE NON_FIELD_ERRORS_KEY :> raised

\* The messages filed under `key` by the constraints k..n, in that order.
RECURSIVE FiledUnder(_, _, _)
FiledUnder(key, k, n) ==
    IF k > n THEN <<>>
    ELSE (IF key \in DOMAIN Filed(k) THEN Filed(k)[key].v ELSE <<>>)
         \o FiledUnder(key, k + 1, n)

RECURSIVE FromTheLeft(_, _)
FromTheLeft(op, expressions) ==
    IF Len(expressions) = 1 THEN expressions[1]
    ELSE Combined(op, FromTheLeft(op, SubSeq(expressions, 1, Len(expressions) - 1)),
                  expressions[Len(expressions)])

\* C13: get_group_entry(group, entries) returns one Entry named after the
\* group; its expression combines, from the left and in the insertion order
\* of the entries, the expressions of the members that have one, with AND
\* unless Meta.combinators names the group; it is the no-expression sentinel
\* exactly when no member has an expression; its value maps every member's
\* name to the member's value.
C13_GroupEntry ==
    (cin # None /\ cout # None) =>
        LET entries == cin.entries
            contributing == SelectSeq(entries, LAMBDA m : m.val.expression # None)
            expressions == [k \in 1..Len(contributing) |-> contributing[k].val.expression]
            op == IF cin.group \in DOMAIN combinators(cls)
                  THEN combinators(cls)[cin.group] ELSE "AND"
        IN  /\ cout.t = "Entry"
            /\ cout.group = cin.group
            /\ cout.expression =
                  IF expressions = <<>> THEN None ELSE FromTheLeft(op, expressions)
            /\ (cout.expression = None) <=>
                  (\A k \in DOMAIN entries : entries[k].val.expression = None)
            /\ DOMAIN cout.value.v = {entries[k].key : k \in DOMAIN entries}
            /\ \A k \in DOMAIN entries : cout.value.v[entries[k].key] = entries[k].val.value

\* Three members of the group Meta.combinators maps to OR, the second without
\* an expression: the result is the first OR the third.
C13_Witness ==
    /\ cin # None /\ cout # None
    /\ cin.group \in DOMAIN combinators(cls)
    /\ Len(cin.entries) = 3
    /\ cin.entries[1].val.expression # None
    /\ cin.entries[2].val.expression = None
    /\ cin.entries[3].val.expression # None
    /\ cout.expression = Combined("OR", cin.entries[1].val.expression,
                                  cin.entries[3].val.expression)

(***************************************************************************)
(* C14                                                                     *)
(***************************************************************************)
\* The dotted names of the non-namespace nodes, in resolution order.
ResolutionParams(c) ==
    [k \in 1..Len(ResolutionOrder(c)) |-> get_param_name(c, ResolutionOrder(c)[k])]

\* The calls that applying one Entry makes on the queryset: none without an
\* expression, else alias(**aliases) if it has aliases and then filter.
CallsFor(entry) ==
    IF entry.expression = None THEN <<>>
    ELSE (IF entry.aliases # None /\ DOMAIN entry.aliases.v # {}
          THEN <<[op |-> "alias", aliases |-> entry.aliases.v]>> ELSE <<>>)
         \o <<[op |-> "filter", expression |-> entry.expression]>>

RECURSIVE CallsForAll(_)
CallsForAll(entries) ==
    IF entries = <<>> THEN <<>>
    ELSE CallsFor(Head(entries)) \o CallsForAll(Tail(entries))

\* The members of a named group that carry an expression / aliases.
WithExpression(entries) == SelectSeq(entries, LAMBDA m : m.val.expression # None)
WithAliases(entries) == SelectSeq(entries, LAMBDA m : m.val.aliases # None)

\* The named groups of `groupdict` whose first segment is `root`.
Under(groupdict, root) == SelectSeq(groupdict, LAMBDA g : split(g.key)[1] = root)

SubGroup(name) ==
    IF Len(split(name)) > 1 THEN split(name)[1] \o <<".">> \o split(name)[2] ELSE name

\* The elements of a sequence, each at its first occurrence.
RECURSIVE Once(_)
Once(seq) ==
    IF seq = <<>> THEN <<>>
    ELSE <<Head(seq)>> \o Once(SelectSeq(Tail(seq), LAMBDA e : e # Head(seq)))

\* One group combined under its own name, with its own combinator.
Direct(group) == [key |-> group.key, val |-> get_group_entry(cls, group.key, group.val)]

\* The sub-result of the sub-group `name` among the groups of a root: its
\* one group combined directly, or its groups combined under "@<name>".
SubResult(groups, name) ==
    LET members == SelectSeq(groups, LAMBDA g : Len(split(g.key)) > 1
                                                /\ SubGroup(g.key) = name)
    IN  IF Len(members) = 1 THEN Direct(members[1]).val
        ELSE get_group_entry(cls, <<"@">> \o name,
                             [k \in 1..Len(members) |-> Direct(members[k])])

\* The one Entry a root is applied as.
RootResult(groups, root) ==
    IF Len(groups) = 1 THEN Direct(groups[1]).val
    ELSE LET plain == SelectSeq(groups, LAMBDA g : Len(split(g.key)) = 1)
             dotted == SelectSeq(groups, LAMBDA g : Len(split(g.key)) > 1)
             subs == Once([k \in 1..Len(dotted) |-> SubGroup(dotted[k].key)])
             children == [k \in 1..Len(plain) |-> Direct(plain[k])]
                         \o [k \in 1..Len(subs) |->
                                [key |-> subs[k], val |-> SubResult(groups, subs[k])]]
         IN  IF Len(children) = 1 THEN children[1].val
             ELSE get_group_entry(cls, <<"@">> \o root, children)

\* C15 as stated: the named groups are partitioned by the first segment of
\* their name; a root with one group is applied as that group combined under
\* its own name; a root shared by several groups is applied once, as the
\* combination under "@<root>" of its sub-groups, each combined first with
\* its own combinator; a resolution left with one child yields that child's
\* Entry itself.
C15_Namespaces ==
    (cin # None /\ cout # None) =>
        LET roots == Once([k \in 1..Len(cin.groupdict) |-> split(cin.groupdict[k].key)[1]])
        IN  cout.queryset = CallsForAll([k \in 1..Len(roots) |->
                                   RootResult(Under(cin.groupdict, roots[k]), roots[k])])

(***************************************************************************)
(* C16                                                                     *)
(***************************************************************************)
\* The request without the key `param`.
Without(query_params, param) ==
    [key \in DOMAIN query_params \ {param} |-> query_params[key]]

\* The heaps as a resolve call of instance `self` sees them: the nodes of
\* its tree bound to it.
Bound(self) ==
    [serializers |-> serializers,
     filters |-> [r \in DOMAIN filters |->
                    IF r[1] = inst[self].fields
                    THEN [filters[r] EXCEPT !.filterset = self] ELSE filters[r]],
     called |-> <<>>]

\* The Entry get_groups filed for `param`, None if there is none.
EntryOf(self, param) ==
    LET groups == {g \in DOMAIN inst[self].groupdict :
                      Has(inst[self].groupdict[g].val, param)}
    IN  IF groups = {} THEN None
        ELSE Get(inst[self].groupdict[CHOOSE g \in groups : TRUE].val, param)

\* What get_groups recorded for `param`: its error, its value, its Entry.
Recorded(self, param) ==
    [error |-> IF param \in DOMAIN inst[self].errordict
               THEN inst[self].errordict[param] ELSE None,
     value |-> IF param \in DOMAIN inst[self].valuedict
               THEN inst[self].valuedict[param] ELSE None,
     entry |-> EntryOf(self, param)]

\* What get_groups records for the result `r` of a resolve_entry call.
Recording(r) ==
    IF r.status = "ValidationError"
    THEN [error |-> r.detail, value |-> empty, entry |-> None]
    ELSE IF r.entry = None
    THEN [error |-> None, value |-> None, entry |-> None]
    ELSE [error |-> None, value |-> r.entry.value, entry |-> r.entry]

\* The blank policy of a node: its own, else the one of the filter set
\* (Meta.blank, else the BLANK setting).
Policy(c, n) ==
    IF Declared(c)[n].blank # "" THEN Declared(c)[n].blank ELSE options(c).blank

\* C16: for a supplied raw value that is empty after trimming, under the
\* policy "omit" get_groups records for the parameter exactly what it
\* records for the same request without that key (the Entry of the default,
\* nothing for a skipped field, or the error of a required field); under
\* "keep" it records what the value field makes of the empty string.
C16_BlankPolicy ==
    \A self \in Instances :
        inst[self].pc = "constraints" =>
            \A n \in Resolvable(cls) :
                LET param == get_param_name(cls, n)
                    query == inst[self].query_params
                IN  (param \in DOMAIN query /\ strip(query[param]) = "") =>
                        IF Policy(cls, n) = "omit"
                        THEN Recorded(self, param) =
                                Recording(resolve_entry(cls, inst[self].fields, n,
                                                        Without(query, param), Bound(self)))
                        ELSE LET field == resolve_serializer(cls, inst[self].fields, n,
                                                             Bound(self)).serializer
                                 parsed == Field_run_validation(field, Str(""))
                             IN  IF parsed.status = "error"
                                 THEN /\ Recorded(self, param).error = parsed.detail
                                      /\ Recorded(self, param).value = empty
                                 ELSE /\ Recorded(self, param).error = None
                                      /\ Recorded(self, param).value = parsed.value

\* GroupFilterSet (Meta.blank = "keep"): the blank value of `title` went to
\* its IntegerField and failed there, the whitespace of `flag`
\* (blank="omit") was dropped and the field skipped.
C16_Witness ==
    /\ cls = "GroupFilterSet"
    /\ inst["i1"].pc = "constraints"
    /\ "title" \in DOMAIN inst["i1"].query_params
    /\ inst["i1"].query_params["title"] = ""
    /\ "flag" \in DOMAIN inst["i1"].query_params
    /\ inst["i1"].query_params["flag"] = " "
    /\ "title" \in DOMAIN inst["i1"].errordict
    /\ inst["i1"].errordict["title"] =
          ListDetail(<<Msg("A valid integer is required.", <<>>)>>)
    /\ "flag" \notin DOMAIN inst["i1"].valuedict
    /\ "flag" \notin DOMAIN inst["i1"].errordict

(***************************************************************************)
(* C17                                                                     *)
(***************************************************************************)
\* A node that declares no group and inherits none.
RECURSIVE Groupless(_, _)
Groupless(c, n) ==
    /\ Declared(c)[n].group = <<>>
    /\ Declared(c)[n].parent # "" => Groupless(c, Declared(c)[n].parent)

\* C17: in a class whose default group is overridden to a name other than
\* "chain", the Entry of every node without a group of its own carries the
\* overridden name and get_groups returns it under that name.
C17_DefaultGroup ==
    \A self \in Instances :
        (ResolutionOver(self) /\ options(cls).default_group # chain) =>
            \A n \in Resolvable(cls) :
                Groupless(cls, n) =>
                    \A g \in DOMAIN inst[self].groupdict :
                        Has(inst[self].groupdict[g].val, get_param_name(cls, n)) =>
                            /\ inst[self].groupdict[g].key = options(cls).default_group
                            /\ Get(inst[self].groupdict[g].val,
                                   get_param_name(cls, n)).group = options(cls).default_group

(***************************************************************************)
(* C18                                                                     *)
(***************************************************************************)
\* Filter(group=g): a group and nothing else.
OnlyGroup ==
    /\ cin.group # None
    /\ cin.blank = None
    /\ ~cin.template /\ ~cin.lookup /\ ~cin.field /\ ~cin.negate /\ ~cin.method

\* C18: Filter(group=g) raises exactly when a dot-separated segment of g is
\* not an identifier or g has "chain" as its first of several segments; so
\* a dotted name of identifiers not led by "chain" is accepted.
C18_GroupNames ==
    (cout # None /\ OnlyGroup) =>
        LET segments == split(cin.group.v)
        IN  cout.status = "ValueError" <=>
                \/ \E k \in 1..Len(segments) : ~isidentifier(segments[k])
                \/ Len(segments) > 1 /\ segments[1] = chain

(***************************************************************************)
(* C19                                                                     *)
(***************************************************************************)
\* The names Meta.fields lists.
Listed == Range(cin.fields.v)

\* The nodes above m in the declared tree.
RECURSIVE Ancestors(_, _)
Ancestors(c, m) ==
    IF Declared(c)[m].parent = "" THEN {}
    ELSE {Declared(c)[m].parent} \cup Ancestors(c, Declared(c)[m].parent)

\* n has a listed descendant.
ListedBelow(c, n) ==
    \E m \in DOMAIN Declared(c) :
        n \in Ancestors(c, m) /\ get_param_name(c, m) \in Listed

\* The compiled tree is the declared one without the unlisted nodes that
\* have no listed descendant; an unlisted node that stays is a namespace.
Pruned(c) ==
    /\ \A n \in DOMAIN Declared(c) :
          /\ n \in DOMAIN cout.tree <=>
                (get_param_name(c, n) \in Listed \/ ListedBelow(c, n))
          /\ n \in DOMAIN cout.tree =>
                /\ cout.tree[n].children =
                      SelectSeq(Declared(c)[n].children,
                                LAMBDA child : child \in DOMAIN cout.tree)
                /\ get_param_name(c, n) \notin Listed => cout.tree[n].namespace
    /\ cout.ret = SelectSeq(compiled_fields(c), LAMBDA root : root \in DOMAIN cout.tree)

\* The dotted names of the compiled tree's nodes that are no namespace.
ResolvableNames(c) ==
    {get_param_name(c, n) : n \in {m \in DOMAIN cout.tree : ~cout.tree[m].namespace}}

\* Class creation fails exactly when fields names something that is no
\* dotted name of the declared tree.
FailsOnUnknown(c) ==
    cout.status = "ValueError" <=> \E field \in Listed : field \notin DottedNames(c)

\* C19 as stated: with Meta.fields set, creation fails exactly on an
\* unknown name; otherwise the tree is pruned to the listed nodes and their
\* ancestors, and its resolvable names are exactly the listed names.
C19_FieldsAsStated ==
    (cout # None /\ cin.fields # None) =>
        /\ FailsOnUnknown(cin.cls)
        /\ cout.status = "ok" =>
              /\ Pruned(cin.cls)
              /\ ResolvableNames(cin.cls) = Listed

\* C19, amended: the same, but the resolvable names are the listed names
\* of nodes that are not declared as namespace; a listed namespace stays a
\* namespace.
C19_Fields ==
    (cout # None /\ cin.fields # None) =>
        /\ FailsOnUnknown(cin.cls)
        /\ cout.status = "ok" =>
              /\ Pruned(cin.cls)
              /\ ResolvableNames(cin.cls) =
                    {get_param_name(cin.cls, n) :
                        n \in {m \in DOMAIN Declared(cin.cls) :
                                  /\ get_param_name(cin.cls, m) \in Listed
                                  /\ ~Declared(cin.cls)[m].namespace}}

\* fields = ("created.date.gte", "ns", ...): created and created.date stay
\* as namespaces above the listed leaf, created.year and username are
\* gone, and the listed namespace ns is kept but not resolvable.
C19_Witness ==
    /\ cout # None
    /\ cin.fields # None
    /\ cout.status = "ok"
    /\ "created.date.gte" \in Listed
    /\ "ns" \in Listed
    /\ "created" \notin Listed
    /\ cout.tree["created"].namespace
    /\ cout.tree["created/date"].namespace
    /\ ~cout.tree["created/date/gte"].namespace
    /\ "created/year" \notin DOMAIN cout.tree
    /\ "username" \notin DOMAIN cout.tree
    /\ cout.tree["ns"].namespace
    /\ cout.ret = <<"created", "ns">>

(***************************************************************************)
(* C20                                                                     *)
(***************************************************************************)
\* The nodes resolved through a custom method.
WithMethod(c) ==
    {n \in Resolvable(c) : Declared(c)[n].method # "" /\ ~Declared(c)[n].noop}

\* The method calls made for `param`, in order.
MethodCalls(self, param) ==
    SelectSeq(inst[self].methods, LAMBDA call : call.param = param)

\* The Entry of `param` is in the returned groups, under `group` only.
FiledIn(self, param, group) ==
    \A g \in DOMAIN inst[self].groupdict :
        Has(inst[self].groupdict[g].val, param) <=> inst[self].groupdict[g].key = group

\* After resolution: a node with a method and without noop whose value
\* failed to parse or was skipped called nothing; every other one called
\* its method once, with its dotted name and the parsed value. An Entry the
\* method returned is the node's Entry as it is, filed under the Entry's own
\* group; any other result is the expression of an Entry with the node's
\* group and the parsed value.
MethodCalled ==
    \A self \in Instances :
        inst[self].pc = "constraints" =>
            \A n \in WithMethod(cls) :
                LET param == get_param_name(cls, n)
                    parsed == parse_value(cls, inst[self].fields, n,
                                          get_query_value(inst[self].query_params, param),
                                          Bound(self))
                    result == CallMethod(cls, Declared(cls)[n].method, param, parsed.value)
                IN  IF parsed.status # "ok"
                    THEN /\ MethodCalls(self, param) = <<>>
                         /\ EntryOf(self, param) = None
                    ELSE /\ MethodCalls(self, param) =
                              <<[method |-> Declared(cls)[n].method, param |-> param,
                                 value |-> parsed.value]>>
                         /\ IF result.t = "Entry"
                            THEN /\ EntryOf(self, param) = result
                                 /\ FiledIn(self, param, result.group)
                            ELSE /\ EntryOf(self, param) =
                                      Entry(get_group(cls, n), None, parsed.value, result)
                                 /\ FiledIn(self, param, get_group(cls, n))

\* No Entry left in the groups of `self` has an expression or aliases.
NothingToApply(self) ==
    \A g \in DOMAIN inst[self].groupdict :
        \A k \in DOMAIN inst[self].groupdict[g].val :
            /\ inst[self].groupdict[g].val[k].val.expression = None
            /\ inst[self].groupdict[g].val[k].val.aliases = None

\* A step of filter_queryset over Entries without expression (of noop, or
\* of a method that returned None) leaves the queryset as it is.
Untouched ==
    \A self \in Instances :
        (inst[self].pc \in {"chain", "groups"} /\ NothingToApply(self)) =>
            inst'[self].queryset = inst[self].queryset

NoopNodes(c) == {n \in Resolvable(c) : Declared(c)[n].noop}
NoopParams(c) == {get_param_name(c, n) : n \in NoopNodes(c)}

\* The groups without the Entries of noop nodes, and without the groups
\* that held nothing else.
WithoutNoop(c, groupdict) ==
    SelectSeq([g \in 1..Len(groupdict) |->
                  [key |-> groupdict[g].key,
                   val |-> SelectSeq(groupdict[g].val,
                                     LAMBDA item : item.key \notin NoopParams(c))]],
              LAMBDA group : group.val # <<>>)

\* A noop node is parsed like any other: what get_groups records for it is
\* the error of its value field, nothing for a skipped field, or the parsed
\* value with an Entry of the node's group that has no expression and no
\* aliases. A failed value is part of the ValidationError handle_errors
\* raises, a parsed one of the values get_queryset is given.
NoopResolved ==
    \A self \in Instances :
        \A n \in NoopNodes(cls) :
            LET param == get_param_name(cls, n)
                me == inst[self]
            IN  me.pc \in {"constraints", "raised", "get_queryset", "done"} =>
                  LET parsed == parse_value(cls, me.fields, n,
                                            get_query_value(me.query_params, param),
                                            Bound(self))
                  IN  /\ me.pc = "constraints" =>
                            Recorded(self, param) =
                               CASE parsed.status = "ValidationError" ->
                                       [error |-> parsed.detail, value |-> empty,
                                        entry |-> None]
                                 [] parsed.status = "SkipField" ->
                                       [error |-> None, value |-> None, entry |-> None]
                                 [] parsed.status = "ok" ->
                                       [error |-> None, value |-> parsed.value,
                                        entry |-> Entry(get_group(cls, n), None,
                                                        parsed.value, None)]
                      /\ (me.pc = "raised" /\ me.exc.t = "ValidationError"
                             /\ parsed.status = "ValidationError") =>
                            /\ param \in DOMAIN me.exc.detail
                            /\ Range(parsed.detail.v) \subseteq Range(me.exc.detail[param].v)
                      /\ (me.pc \in {"get_queryset", "done"} /\ parsed.status = "ok") =>
                            /\ param \in DOMAIN me.valuedict
                            /\ me.valuedict[param] = parsed.value

\* The steps of filter_queryset make the calls they would make without the
\* Entries of the noop nodes: none for such an Entry, alone in "chain" or
\* as the only member of its group, and none for the aliases it declares.
NoopFrame ==
    \A self \in Instances :
        /\ inst[self].pc = "chain" =>
              inst'[self].queryset =
                 ChainFrom(inst[self].queryset,
                           LET kept == WithoutNoop(cls, inst[self].groupdict)
                           IN  IF Has(kept, chain) THEN Get(kept, chain) ELSE <<>>)
        /\ inst[self].pc = "groups" =>
              inst'[self].queryset =
                 GroupsFrom(cls, inst[self].queryset,
                            Partition(WithoutNoop(cls, inst[self].groupdict), <<>>))

\* C21: a noop filter is parsed and validated like any other, its errors
\* are raised with the others and its value is passed on, but its Entry has
\* no expression and filter_queryset makes no filter or alias call for it.
C21_Noop == []NoopResolved /\ [][NoopFrame]_vars

\* CustomFilterSet on ?sort=7: the noop node `sort` (group "other", with
\* declared aliases) was parsed to 7, which get_queryset received, and the
\* base queryset came back untouched.
C21_Witness ==
    /\ cls = "CustomFilterSet"
    /\ inst["i1"].pc = "done"
    /\ DOMAIN inst["i1"].query_params = {"sort"}
    /\ inst["i1"].valuedict = [p \in {"sort"} |-> IntValue(7)]
    /\ inst["i1"].queryset = <<>>

(***************************************************************************)
(* C22                                                                     *)
(***************************************************************************)
\* The nodes from the root of its tree down to n.
RECURSIVE PathTo(_, _)
PathTo(c, n) ==
    IF Declared(c)[n].parent = "" THEN <<n>>
    ELSE Append(PathTo(c, Declared(c)[n].parent), n)

\* The name a node goes by: its param, else for a child its lookup, else
\* the attribute name.
OwnName(c, n) ==
    IF Declared(c)[n].param # "" THEN Declared(c)[n].param
    ELSE IF Declared(c)[n].parent # "" /\ Declared(c)[n].lookup # ""
    THEN Declared(c)[n].lookup
    ELSE Declared(c)[n].name

\* The own names along a path, joined with ".".
RECURSIVE Dotted(_, _)
Dotted(c, path) ==
    IF Len(path) = 1 THEN OwnName(c, path[1])
    ELSE OwnName(c, path[1]) \o "." \o Dotted(c, Tail(path))

\* C22: the name of a node at any depth is its own name (param, else the
\* lookup taken at bind time, else the attribute name) prefixed by the
\* parent's dotted name and "."; the node's raw value is the value of that
\* key of the query, and `empty` when the query has no such key.
C22_ParamName ==
    (cout # None /\ cout.call = "get_query_value") =>
        LET name == Dotted(cls, PathTo(cls, cin.node))
        IN  /\ cout.param = name
            /\ Declared(cls)[cin.node].parent # "" =>
                  cout.param = get_param_name(cls, Declared(cls)[cin.node].parent)
                               \o "." \o OwnName(cls, cin.node)
            /\ cout.value = IF name \in DOMAIN cin.query_dict
                            THEN Str(cin.query_dict[name]) ELSE empty

\* The grandchild Filter(lookup="lt") of box.y goes by "box.y.lt": its
\* value is the one of that key, not of the key "lt".
C22_Witness ==
    /\ cout # None
    /\ cout.call = "get_query_value"
    /\ cin.node = "box/y/lt"
    /\ cin.query_dict = [key \in {"lt", "box.y.lt"} |-> IF key = "lt" THEN "7" ELSE "8"]
    /\ cout.param = "box.y.lt"
    /\ cout.value = Str("8")

(***************************************************************************)
(* C23                                                                     *)
(***************************************************************************)
\* The nodes of a path that set a field, nearest last.
WithField(c, path) == SelectSeq(path, LAMBDA m : Declared(c)[m].field # None)

\* The field of the nearest node, from n upwards, that sets one.
NearestField(c, n) ==
    Declared(c)[WithField(c, PathTo(c, n))[Len(WithField(c, PathTo(c, n)))]].field

\* C23 as stated: the node's own field, else the field of the nearest
\* ancestor that sets one, else the node's own parameter name (read as its
\* bare or its dotted name).
C23_DbFieldAsStated ==
    (cout # None /\ cout.call = "get_db_field") =>
        IF WithField(cls, PathTo(cls, cin.node)) # <<>>
        THEN cout.field = NearestField(cls, cin.node)
        ELSE cout.field \in {Str(OwnName(cls, cin.node)),
                             Str(Dotted(cls, PathTo(cls, cin.node)))}

\* C23, amended: the node's own field, else the field of the nearest
\* ancestor that sets one, else the attribute name of the root of the
\* node's tree, which for a top-level node is its own attribute name even
\* when it goes by another param.
C23_DbField ==
    (cout # None /\ cout.call = "get_db_field") =>
        IF WithField(cls, PathTo(cls, cin.node)) # <<>>
        THEN cout.field = NearestField(cls, cin.node)
        ELSE cout.field = Str(Declared(cls)[PathTo(cls, cin.node)[1]].name)

\* Filter(lookup="gte") under modified (param "updated"): no node up to the
\* root sets a field, and the target is "modified".
C23_Witness ==
    /\ cout # None
    /\ cout.call = "get_db_field"
    /\ cin.node = "modified/gte"
    /\ cout.field = Str("modified")

(***************************************************************************)
(* C24                                                                     *)
(***************************************************************************)
\* The nodes of the tree under a root, and those resolve is to attempt.
TreeOf(c, root) == {m \in DOMAIN Declared(c) : PathTo(c, m)[1] = root}
ToResolve(c, root) == {m \in TreeOf(c, root) : ~Declared(c)[m].namespace}

\* The position of a child in its parent's children list.
PositionOf(c, m) ==
    CHOOSE k \in 1..Len(Declared(c)[Declared(c)[m].parent].children) :
        Declared(c)[Declared(c)[m].parent].children[k] = m

\* a comes before b in depth-first pre-order: a is above b, or where their
\* paths part a's branch comes first in the children list.
PreOrder(c, a, b) ==
    LET pa == PathTo(c, a)
        pb == PathTo(c, b)
        apart == {k \in 1..Len(pa) : k > Len(pb) \/ pa[k] # pb[k]}
    IN  IF apart = {} THEN a # b
        ELSE LET k == CHOOSE j \in apart : \A i \in apart : j <= i
             IN  k <= Len(pb) /\ PositionOf(c, pa[k]) < PositionOf(c, pb[k])

\* The node of a dotted name.
NodeOf(c, param) == CHOOSE m \in DOMAIN Declared(c) : get_param_name(c, m) = param

\* C24: one call of resolve on a root attempts every non-namespace node of
\* its tree, those below namespaces included, exactly once and in
\* depth-first pre-order, attempts no namespace, and leaves every attempted
\* name in exactly one of the mappings entries and errors.
C24_ResolveOnce ==
    cout # None =>
        /\ cout.status = "ok"
        /\ Distinct(cout.attempted)
        /\ Range(cout.attempted) =
              {get_param_name(cls, m) : m \in ToResolve(cls, cin.root)}
        /\ \A i, j \in 1..Len(cout.attempted) :
              i < j => PreOrder(cls, NodeOf(cls, cout.attempted[i]),
                                NodeOf(cls, cout.attempted[j]))
        /\ Range(Keys(cout.entries)) \cup Range(Keys(cout.errors))
              = Range(cout.attempted)
        /\ Range(Keys(cout.entries)) \cap Range(Keys(cout.errors)) = {}
        /\ Distinct(Keys(cout.entries)) /\ Distinct(Keys(cout.errors))

\* resolve on first_name with ?first_name.ln=x&first_name.ln.x=7: the four
\* nodes were attempted in pre-order, first_name.ln is an error and the
\* other three are entries.
C24_Witness ==
    /\ cout # None
    /\ cin.root = "first_name"
    /\ cout.attempted = <<"first_name", "first_name.ln", "first_name.ln.x",
                          "first_name.len">>
    /\ Keys(cout.errors) = <<"first_name.ln">>
    /\ Keys(cout.entries) = <<"first_name", "first_name.ln.x", "first_name.len">>

(***************************************************************************)
(* C27                                                                     *)
(***************************************************************************)
\* The heaps of instance "i1" as its constructor left them, its top-level
\* fields bound to it: no parameter has been resolved yet.
Fresh ==
    [serializers |-> InitSerializers(cls),
     filters |-> [r \in DOMAIN InitFilters(cls) |->
                    IF r[1] = "i1" THEN [InitFilters(cls)[r] EXCEPT !.filterset = "i1"]
                    ELSE InitFilters(cls)[r]],
     called |-> <<>>]

\* What resolve keeps of the result r of one resolve_entry call.
Kept_of(r) ==
    IF r.status = "ValidationError" THEN [error |-> r.detail, entry |-> None]
    ELSE [error |-> None, entry |-> r.entry]

\* What the first resolve call kept for `param`.
Kept_for(param) ==
    IF Has(cout.errors, param)
    THEN [error |-> Get(cout.errors, param), entry |-> None]
    ELSE [error |-> None, entry |-> Get(cout.entries, param)]

\* C27: within one request no parameter observes the default or context
\* set for another one, a child that inherits its parent's serializer
\* included: what resolve keeps for each node of a tree is what resolving
\* that node alone, before any other, gives.
C27_OwnSerializer ==
    (cout # None /\ cout.n = 1) =>
        \A m \in ToResolve(cls, cin.root) :
            Kept_for(get_param_name(cls, m)) =
                Kept_of(resolve_entry(cls, "i1", m, cin.query_dict, Fresh))

(***************************************************************************)
(* C25                                                                     *)
(***************************************************************************)
\* The constraint objects and the top-level nodes that hold a reference to
\* a filterset.
BoundConstraints == {r \in DOMAIN constraints : constraints[r].filterset # ""}
BoundNodes == {r \in DOMAIN filters : filters[r].filterset # ""}

\* C25: the back-references are transient. Between any two steps of a
\* request (a field resolved or its resolution raised, the constraints
\* checked, the request over or failed) no constraint object and no node
\* holds a reference to a filterset: each is bound for its own check or
\* its own resolve call only and unbound when that call ends, however it
\* ends.
C25_Transient ==
    /\ BoundConstraints = {}
    /\ BoundNodes = {}

\* A request past its resolve calls and its constraint checks, one of
\* which raised: nothing is left bound.
C25_Witness ==
    LET me == inst["i1"]
    IN  /\ me # NoInstance
        /\ me.pc = "unknown"
        /\ me.i > 1
        /\ \E k \in 1..Len(options(cls).constraints) :
              check(options(cls).constraints[k], me.valuedict) # None
        /\ C25_Transient

(***************************************************************************)
(* C26                                                                     *)
(***************************************************************************)
\* The nodes of the compiled tree that are flagged as namespaces.
Namespaces == {n \in DOMAIN cout.tree : cout.tree[n].namespace}

\* C26: in the tree _compile_fields leaves, with or without Meta.fields,
\* every node whose namespace flag is set has at least one child.
C26_NamespaceHasChildren ==
    (cout # None /\ cout.status = "ok") =>
        \A n \in Namespaces : cout.tree[n].children # <<>>

(***************************************************************************)
(* C30                                                                     *)
(***************************************************************************)
\* How many times the expression `e` occurs in a combined expression.
RECURSIVE Occurrences(_, _)
Occurrences(expression, e) ==
    IF expression = e THEN 1
    ELSE IF expression.t = "combined"
    THEN Occurrences(expression.lhs, e) + Occurrences(expression.rhs, e)
    ELSE 0

\* How many times `e` occurs in the conditions of the filter() calls of a
\* queryset.
RECURSIVE Applied(_, _)
Applied(queryset, e) ==
    IF queryset = <<>> THEN 0
    ELSE (IF Head(queryset).op = "filter"
          THEN Occurrences(Head(queryset).expression, e) ELSE 0)
         + Applied(Tail(queryset), e)

\* C30: whatever the names of the groups, names under one root where one is
\* a string prefix of the other included, every Entry that carries an
\* expression contributes it exactly once to the conditions filter_queryset
\* applies.
C30_AppliedOnce ==
    (cin # None /\ cout # None) =>
        \A k \in 1..Len(cin.groupdict) :
            \A m \in 1..Len(cin.groupdict[k].val) :
                LET entry == cin.groupdict[k].val[m].val
                IN  entry.expression # None =>
                        Applied(cout.queryset, entry.expression) = 1

(***************************************************************************)
(* C29                                                                     *)
(***************************************************************************)
\* The nodes of the resolved tree whose target field is an expression.
ExpressionNodes ==
    {m \in ToResolve(cls, cin.root) : get_db_field(cls, m).t = "expr"}

\* The alias generated for the expression of node m.
DefaultAlias(m) == "_default_alias_" \o Dotted(cls, PathTo(cls, m))

\* The aliases node m was declared with.
DeclaredAliases(m) ==
    IF Declared(cls)[m].aliases = None THEN <<>> ELSE Declared(cls)[m].aliases.v

\* C29: the Entry of a node whose target field is an expression carries
\* the expression under the alias "_default_alias_<dotted name>" next to
\* every alias the node was declared with, and its condition compares that
\* alias, with the lookup suffix and the negation of the node, to the
\* value; resolving the tree again with the same query gives an equal
\* Entry.
C29_ExpressionAlias ==
    (cout # None /\ cout.status = "ok") =>
        \A m \in ExpressionNodes :
            LET param == Dotted(cls, PathTo(cls, m))
                self == Declared(cls)[m]
                entry == Get(cout.entries, param)
                lhs == IF self.lookup # "" THEN DefaultAlias(m) \o "__" \o self.lookup
                       ELSE DefaultAlias(m)
            IN  (Has(cout.entries, param) /\ entry # None) =>
                    /\ entry.aliases.v =
                           (DefaultAlias(m) :> get_db_field(cls, m)) @@ DeclaredAliases(m)
                    /\ entry.expression =
                           Q("AND", self.negate, <<Pair(lhs, entry.value)>>)
                    /\ cout.n > 1 => Get(cout.previous, param) = entry

\* first_name.len=3 resolved twice: both times the Entry has the declared
\* alias n, the generated one, and NOT(_default_alias_first_name.len__gt=3).
C29_Witness ==
    /\ cout # None /\ cout.status = "ok" /\ cout.n = 2
    /\ cin.root = "first_name"
    /\ "first_name/len" \in ExpressionNodes
    /\ "first_name.len" \in DOMAIN cin.query_dict
    /\ Has(cout.entries, "first_name.len")
    /\ Get(cout.entries, "first_name.len") # None
    /\ Get(cout.entries, "first_name.len").value = IntValue(7)
    /\ DOMAIN Get(cout.entries, "first_name.len").aliases.v =
          {"n", "_default_alias_first_name.len"}
    /\ Get(cout.previous, "first_name.len") = Get(cout.entries, "first_name.len")

(***************************************************************************)
(* C28                                                                     *)
(***************************************************************************)
\* Some leaf of the template, at any level, already holds a value.
RECURSIVE HasLiteral(_)
HasLiteral(q) ==
    \E k \in 1..Len(q.children) :
        \/ q.children[k].t = "pair"
        \/ q.children[k].t = "Q" /\ HasLiteral(q.children[k])

\* `filled` has the shape of the template `q`: the same connector and
\* negation flag, as many children, a Q of the same shape where the
\* template holds a Q and the pair of the field path and `parsed` where it
\* holds a path.
RECURSIVE SameShape(_, _, _)
SameShape(q, filled, parsed) ==
    /\ filled.t = "Q"
    /\ filled.connector = q.connector
    /\ filled.negated = q.negated
    /\ Len(filled.children) = Len(q.children)
    /\ \A k \in 1..Len(q.children) :
          IF q.children[k].t = "Q"
          THEN SameShape(q.children[k], filled.children[k], parsed)
          ELSE /\ q.children[k].t = "path"
               /\ filled.children[k] = Pair(q.children[k].field, parsed)

\* C28: fill_q_template raises the construction error when a leaf of the
\* template, at any level, already holds a value; otherwise the result has
\* the shape, the connectors and the negation flags of the template at
\* every level with each field path paired with the value, and filling the
\* negated template gives the negation of the filled template.
C28_FillTemplate ==
    (cin # None /\ cout # None) =>
        IF HasLiteral(cin.template)
        THEN cout.filled.t = "ValueError" /\ cout.negated.t = "ValueError"
        ELSE /\ SameShape(cin.template, cout.filled, cin.value)
             /\ cout.negated = Invert(cout.filled)

\* A negated OR template with a nested negated Q and two more paths,
\* filled; and none of its leaves held a value.
C28_Witness ==
    /\ cin # None /\ cout # None
    /\ ~HasLiteral(cin.template)
    /\ cin.template.connector = "OR" /\ cin.template.negated
    /\ Len(cin.template.children) = 2
    /\ cin.template.children[1].t = "Q"
    /\ cin.template.children[1].negated
    /\ Len(cin.template.children[1].children) = 2
    /\ cin.template.children[2].t = "path"
    /\ cout.filled.children[2] = Pair("username", cin.value)
    /\ cout.filled.children[1].children[1] = Pair("username", cin.value)
    /\ cout.filled.negated /\ ~cout.negated.negated
====
